---- MODULE Spec2Model ----
(***************************************************************************)
(* Time Warp IDE (src/src/main.rs): the interpretive core of TimeWarpApp. *)
(*                                                                         *)
(* Text is modelled as a sequence of one-character strings, so that the    *)
(* slicing, trimming, searching and parsing the interpreters do on the     *)
(* source text is computed and not assumed.  A transcript line is the      *)
(* format string of the format!/push that produced it together with the    *)
(* texts substituted into it.                                              *)
(***************************************************************************)
EXTENDS Integers, Sequences, FiniteSets, TLC

\* ------------------------------------------------------------------ bounds
\* Interpreter loop iterations modelled per call of execute_code.
MaxSteps == 9
\* Host operations (menu / button / input-field events) modelled per behaviour.
MaxOps == 3

\* ------------------------------------------------------------------- text
None == -1

Min(a, b) == IF a <= b THEN a ELSE b

\* char::is_whitespace, on the characters the model uses
IsWs(c) == c = " "

\* &s[a..b], zero-based, b exclusive; Rust panics unless a <= b <= s.len()
SliceOk(s, a, b) == 0 <= a /\ a <= b /\ b <= Len(s)
Slice(s, a, b) == SubSeq(s, a + 1, b)
\* &s[a..]
From(s, a) == SubSeq(s, a + 1, Len(s))

RECURSIVE TrimStart(_)
TrimStart(s) ==
    IF s # <<>> /\ IsWs(Head(s)) THEN TrimStart(Tail(s)) ELSE s

RECURSIVE TrimEnd(_)
TrimEnd(s) ==
    IF s # <<>> /\ IsWs(s[Len(s)]) THEN TrimEnd(SubSeq(s, 1, Len(s) - 1)) ELSE s

\* str::trim
Trim(s) == TrimEnd(TrimStart(s))

\* str::trim_end_matches(c)
RECURSIVE TrimEndMatches(_, _)
TrimEndMatches(s, c) ==
    IF s # <<>> /\ s[Len(s)] = c
    THEN TrimEndMatches(SubSeq(s, 1, Len(s) - 1), c)
    ELSE s

\* str::starts_with / str::ends_with
StartsWith(s, p) == Len(s) >= Len(p) /\ SubSeq(s, 1, Len(p)) = p
EndsWith(s, p) == Len(s) >= Len(p) /\ SubSeq(s, Len(s) - Len(p) + 1, Len(s)) = p

\* The least element of a set of indices, or None
MinOrNone(S) == IF S = {} THEN None ELSE CHOOSE k \in S : \A m \in S : k <= m

\* str::find(pattern): zero-based index of the first match, or None
FindStr(s, p) ==
    MinOrNone({k \in 0..(Len(s) - Len(p)) : SubSeq(s, k + 1, k + Len(p)) = p})

FindChar(s, c) == FindStr(s, <<c>>)

\* str::contains
Contains(s, p) == FindStr(s, p) # None

LowerChars == <<"a","b","c","d","e","f","g","h","i","j","k","l","m",
                "n","o","p","q","r","s","t","u","v","w","x","y","z">>
UpperChars == <<"A","B","C","D","E","F","G","H","I","J","K","L","M",
                "N","O","P","Q","R","S","T","U","V","W","X","Y","Z">>

MapChar(c, from, to) ==
    IF \E k \in 1..Len(from) : from[k] = c
    THEN to[CHOOSE k \in 1..Len(from) : from[k] = c]
    ELSE c

\* str::to_uppercase / str::to_lowercase (ASCII text)
ToUpper(s) == [k \in 1..Len(s) |-> MapChar(s[k], LowerChars, UpperChars)]
ToLower(s) == [k \in 1..Len(s) |-> MapChar(s[k], UpperChars, LowerChars)]

\* str::split_whitespace, collected
RECURSIVE SplitWhitespace(_)
SplitWord(t, e) ==
    IF t = <<>> THEN <<>>
    ELSE IF e = None THEN <<t>>
    ELSE <<Slice(t, 0, e)>> \o SplitWhitespace(From(t, e))
SplitTrimmed(t) == SplitWord(t, FindChar(t, " "))
SplitWhitespace(s) == SplitTrimmed(TrimStart(s))

\* str::split(pattern), collected
RECURSIVE Split(_, _)
SplitAt(s, p, k) ==
    IF k = None THEN <<s>>
    ELSE <<Slice(s, 0, k)>> \o Split(From(s, k + Len(p)), p)
Split(s, p) == SplitAt(s, p, FindStr(s, p))

Digits == <<"0","1","2","3","4","5","6","7","8","9">>
IsDigit(c) == \E k \in 1..10 : Digits[k] = c
DigitVal(c) == (CHOOSE k \in 1..10 : Digits[k] = c) - 1

RECURSIVE DigitsVal(_)
DigitsVal(s) ==
    IF s = <<>> THEN 0 ELSE 10 * DigitsVal(SubSeq(s, 1, Len(s) - 1)) + DigitVal(s[Len(s)])

\* Decimal literals the model evaluates have at most this many digits (longer
\* ones are not in the domain of ParseU32 / ParseF32 below).
MaxDigits == 9

IsDigitString(s) ==
    s # <<>> /\ Len(s) <= MaxDigits /\ \A k \in 1..Len(s) : IsDigit(s[k])

\* The value of a digit string, or None
DigitsOrNone(d) == IF IsDigitString(d) THEN DigitsVal(d) ELSE None

\* str::parse::<u32>(): an optional '+' and decimal digits; None for Err
ParseU32(s) == DigitsOrNone(IF s # <<>> /\ Head(s) = "+" THEN Tail(s) ELSE s)

\* i32/f32 Display of an integer value
RECURSIVE NatToStr(_)
NatToStr(n) ==
    IF n < 10 THEN <<Digits[n + 1]>> ELSE NatToStr(n \div 10) \o <<Digits[(n % 10) + 1]>>

IntToStr(n) == IF n < 0 THEN <<"-">> \o NatToStr(-n) ELSE NatToStr(n)

\* ---------------------------------------------------------------- numbers
\* f32 has a 24-bit significand: every integer of magnitude up to 2^24 is a
\* value of the type, above it only the multiples of the quantum are.
F32Exact == 16777216

RECURSIVE F32Quantum(_)
F32Quantum(n) == IF n <= F32Exact THEN 1 ELSE 2 * F32Quantum(n \div 2)

\* The f32 nearest to the non-negative integer n (round to nearest, ties to
\* even): q is the spacing of the f32 values around n, lo the one at or below n
F32Pick(n, q, lo) ==
    IF 2 * (n - lo) < q THEN lo
    ELSE IF 2 * (n - lo) > q THEN lo + q
    ELSE IF (lo \div q) % 2 = 0 THEN lo ELSE lo + q
F32Nearest(n, q) == F32Pick(n, q, (n \div q) * q)
F32RoundNat(n) == F32Nearest(n, F32Quantum(n))

F32Round(n) == IF n < 0 THEN -F32RoundNat(-n) ELSE F32RoundNat(n)

\* f32 addition of two integer-valued f32
F32Add(a, b) == F32Round(a + b)

\* str::parse::<f32>() on an integer literal: an optional sign and decimal
\* digits.  [ok |-> FALSE] for Err.  (Literals with a fraction, an exponent,
\* "inf" or "nan", and the literal -0, are outside the model; the programs
\* below contain none.)
ParseSigned(neg, d) ==
    IF IsDigitString(d)
    THEN [ok |-> TRUE, val |-> F32Round(IF neg THEN -DigitsVal(d) ELSE DigitsVal(d))]
    ELSE [ok |-> FALSE, val |-> 0]
ParseF32(s) ==
    ParseSigned(s # <<>> /\ Head(s) = "-",
                IF s # <<>> /\ Head(s) \in {"+", "-"} THEN Tail(s) ELSE s)

\* f32 Display (to_string, "{}") of an integer-valued f32 below 2^25, where
\* the shortest round-trip decimal is the integer itself
F32ToStr(v) == IntToStr(v)

\* ------------------------------------------------------------- transcript
\* One pushed/appended piece of text: the format string and its arguments.
Line(fmt, args) == [fmt |-> fmt, args |-> args]

\* ---------------------------------------------------------- variable store
\* HashMap<String, String>
EmptyMap == [k \in {} |-> <<>>]
\* An insert into a fresh map: the other entries are lost
PutAlone(m, k, v) == [n \in {k} |-> v]
\* HashMap::insert
Put(m, k, v) == [n \in (DOMAIN m) \cup {k} |-> IF n = k THEN v ELSE m[n]]
\* HashMap::get(..).is_some()
Has(m, k) == k \in DOMAIN m

\* ---------------------------------------------------------- turtle engine
\* TurtleState at the home pose (Default for TimeWarpApp, HOME, CLEARSCREEN)
HomeX == 200
HomeY == 200

\* A cosine that is 0 at every heading
CosDegZero(a) == 0

\* f32::to_radians().cos() / .sin() at the headings 0, 90, 180 and 270.  At
\* heading 0 the f32 values are exactly 1 and 0.  At the other three the f32
\* cosine or sine that is 0 in exact arithmetic is a residue below 1e-7 in
\* magnitude; for a distance of at most 50 and a coordinate between 128 and
\* 512 the residue's contribution is under half an ulp of the coordinate, so
\* the f32 sum is the integer sum.  Other headings are outside the model: the
\* CASE has no arm for them.
CosDeg(a) ==
    CASE a = 0 -> 1 [] a = 90 -> 0 [] a = 180 -> -1 [] a = 270 -> 0
SinDeg(a) ==
    CASE a = 0 -> 0 [] a = 90 -> 1 [] a = 180 -> 0 [] a = 270 -> -1

\* split_whitespace().nth(1) then parse::<f32>()
TurtleArg(cmd) ==
    LET w == SplitWhitespace(cmd)
    IN  IF Len(w) >= 2 THEN ParseF32(w[2]) ELSE [ok |-> FALSE, val |-> 0]

\* A reset of the position that keeps the heading
GoHomeKeepHeading(st) ==
    [st EXCEPT !.turtle_state.x = HomeX, !.turtle_state.y = HomeY]

\* A reset of the pose that empties the Segment Log as well
GoHomeClearsLog(st) ==
    [st EXCEPT !.turtle_state.x = HomeX, !.turtle_state.y = HomeY, !.turtle_state.angle = 0,
               !.turtle_commands = <<>>]

\* turtle_state.x = 200.0; turtle_state.y = 200.0; turtle_state.angle = 0.0
GoHome(st) ==
    [st EXCEPT !.turtle_state.x = HomeX, !.turtle_state.y = HomeY, !.turtle_state.angle = 0]

\* A pen change that also takes the turtle back to the home position
SetPenAtHome(st, down) ==
    [st EXCEPT !.turtle_state.pen_down = down,
               !.turtle_state.x = HomeX, !.turtle_state.y = HomeY]

\* turtle_state.pen_down = false / true
SetPen(st, down) == [st EXCEPT !.turtle_state.pen_down = down]

\* execute_turtle_command: st is the application state (the fields of self)
ExecuteTurtleCommand(st, command) ==
    LET cmd == ToUpper(command)
        arg == TurtleArg(cmd)
        ts  == st.turtle_state
    IN  IF StartsWith(cmd, <<"F","O","R","W","A","R","D">>) \/ StartsWith(cmd, <<"F","D">>) THEN
            IF arg.ok THEN
                LET new_x == F32Add(ts.x, arg.val * CosDeg(ts.angle))
                    new_y == F32Add(ts.y, arg.val * SinDeg(ts.angle))
                IN  [st EXCEPT
                       !.turtle_commands =
                           IF ts.pen_down
                           THEN Append(@, Line("line {} {} {} {}",
                                    <<F32ToStr(ts.x), F32ToStr(ts.y),
                                      F32ToStr(new_x), F32ToStr(new_y)>>))
                           ELSE @,
                       !.turtle_state.x = new_x,
                       !.turtle_state.y = new_y,
                       !.output = Append(@, Line("Turtle: forward {}\n", <<F32ToStr(arg.val)>>))]
            ELSE st
        ELSE IF StartsWith(cmd, <<"R","I","G","H","T">>) \/ StartsWith(cmd, <<"R","T">>) THEN
            IF arg.ok THEN
                [st EXCEPT !.turtle_state.angle = F32Add(@, arg.val),
                           !.output = Append(@, Line("Turtle: right {}\n", <<F32ToStr(arg.val)>>))]
            ELSE st
        ELSE IF StartsWith(cmd, <<"L","E","F","T">>) \/ StartsWith(cmd, <<"L","T">>) THEN
            IF arg.ok THEN
                [st EXCEPT !.turtle_state.angle = F32Add(@, -arg.val),
                           !.output = Append(@, Line("Turtle: left {}\n", <<F32ToStr(arg.val)>>))]
            ELSE st
        ELSE IF cmd = <<"P","E","N","U","P">> \/ cmd = <<"P","U">> THEN
            [SetPen(st, FALSE) EXCEPT !.output = Append(@, Line("Turtle: pen up\n", <<>>))]
        ELSE IF cmd = <<"P","E","N","D","O","W","N">> \/ cmd = <<"P","D">> THEN
            [SetPen(st, TRUE) EXCEPT !.output = Append(@, Line("Turtle: pen down\n", <<>>))]
        ELSE IF StartsWith(cmd, <<"H","O","M","E">>) THEN
            [GoHome(st) EXCEPT !.output = Append(@, Line("Turtle: home\n", <<>>))]
        ELSE IF StartsWith(cmd, <<"C","L","E","A","R","S","C","R","E","E","N">>) \/ cmd = <<"C","S">> THEN
            [GoHome(st) EXCEPT !.turtle_commands = <<>>,
                               !.output = Append(@, Line("Turtle: clear screen\n", <<>>))]
        ELSE st

\* ------------------------------------------------------- BASIC: statements
\* A push that puts the new line first
PushFirst(st, line) == [st EXCEPT !.out = <<line>> \o @]

\* output.push(..) on the transcript of the running interpreter
Push(st, line) == [st EXCEPT !.out = Append(@, line)]

\* A slice out of range: the thread panics and the process aborts
Panic(st) == [st EXCEPT !.panicked = TRUE]

\* The text between the first '"' of args and the next one, when both exist
Quoted(args) ==
    LET qs == FindChar(args, "\"")
        qe == IF qs = None THEN None ELSE FindChar(From(args, qs + 1), "\"")
    IN  IF qe = None THEN [ok |-> FALSE, text |-> <<>>]
        ELSE [ok |-> TRUE, text |-> Slice(args, qs + 1, qs + 1 + qe)]

\* A print that does not recognise quoted literals
ExecutePrintNoLiteral(st, args) ==
    IF Trim(args) = <<>> THEN Push(st, Line("", <<>>))
    ELSE IF Has(st.variables, Trim(args))
    THEN Push(st, Line("{}", <<st.variables[Trim(args)]>>))
    ELSE Push(st, Line("Undefined variable: {}", <<Trim(args)>>))

\* execute_print
ExecutePrint(st, args) ==
    IF Trim(args) = <<>> THEN Push(st, Line("", <<>>))
    ELSE IF Quoted(args).ok THEN Push(st, Line("{}", <<Quoted(args).text>>))
    ELSE LET var_name == Trim(args)
         IN  IF Has(st.variables, var_name)
             THEN Push(st, Line("{}", <<st.variables[var_name]>>))
             ELSE Push(st, Line("Undefined variable: {}", <<var_name>>))

\* execute_let
ExecuteLet(st, args) ==
    LET eq_pos == FindChar(args, "=")
    IN  IF eq_pos = None THEN st
        ELSE LET var_part   == Trim(Slice(args, 0, eq_pos))
                 value_part == Trim(From(args, eq_pos + 1))
                 words      == SplitWhitespace(var_part)
             IN  IF words = <<>> THEN st
                 ELSE LET var_name == words[Len(words)]
                      IN  Push([st EXCEPT !.variables = Put(@, var_name, value_part)],
                               Line("{} = {}", <<var_name, value_part>>))

\* The first word of args that neither starts nor ends with '"', or "INPUT"
InputVarName(args) ==
    LET w    == SplitWhitespace(args)
        hits == {k \in 1..Len(w) : Head(w[k]) # "\"" /\ w[k][Len(w[k])] # "\""}
    IN  IF hits = {} THEN <<"I","N","P","U","T">>
        ELSE w[CHOOSE k \in hits : \A m \in hits : k <= m]

\* An execute_input that keeps a Suspension Record already set in this run
ExecuteInputKeepsFirst(st, args) ==
    LET prompt == IF Quoted(args).ok
                  THEN Line("{}", <<Quoted(args).text>>)
                  ELSE Line("Input:", <<>>)
    IN  IF st.raised
        THEN Push(st, Line(prompt.fmt \o " ", prompt.args))
        ELSE Push([st EXCEPT !.input_prompt = prompt,
                             !.current_input_var = InputVarName(args),
                             !.waiting_for_input = TRUE, !.raised = TRUE],
                  Line(prompt.fmt \o " ", prompt.args))

\* execute_input: the Suspension Record is set, the prompt is pushed, and the
\* function returns to the interpreter loop
ExecuteInput(st, args) ==
    LET prompt == IF Quoted(args).ok
                  THEN Line("{}", <<Quoted(args).text>>)
                  ELSE Line("Input:", <<>>)
    IN  Push([st EXCEPT !.input_prompt = prompt,
                        !.current_input_var = InputVarName(args),
                        !.waiting_for_input = TRUE, !.raised = TRUE],
             Line(prompt.fmt \o " ", prompt.args))

\* A condition evaluation that takes an unbound name for false
EvaluateConditionStrict(vars, condition) ==
    IF Contains(condition, <<"="," ">>) THEN
        LET parts == Split(condition, <<"="," ">>)
        IN  IF Len(parts) = 2
            THEN Has(vars, Trim(parts[1])) /\ vars[Trim(parts[1])] = Trim(parts[2])
            ELSE TRUE
    ELSE TRUE

\* evaluate_condition
EvaluateCondition(vars, condition) ==
    IF Contains(condition, <<"="," ">>) THEN
        LET parts == Split(condition, <<"="," ">>)
        IN  IF Len(parts) = 2 /\ Has(vars, Trim(parts[1]))
            THEN vars[Trim(parts[1])] = Trim(parts[2])
            ELSE TRUE
    ELSE TRUE

\* execute_basic_command (the inline command of IF .. THEN and of REPEAT)
ExecuteBasicCommand(st, command) ==
    LET cmd_upper == ToUpper(command)
    IN  IF StartsWith(cmd_upper, <<"P","R","I","N","T">>) THEN
            IF SliceOk(command, 6, Len(command))
            THEN ExecutePrint(st, From(command, 6))
            ELSE Panic(st)
        ELSE IF StartsWith(cmd_upper, <<"L","E","T"," ">>) THEN ExecuteLet(st, From(command, 4))
        ELSE st

\* for _ in 0..count { execute_basic_command }
RECURSIVE RepeatCommand(_, _, _)
RepeatCommand(st, count, command) ==
    IF count = 0 \/ st.panicked THEN st
    ELSE RepeatCommand(ExecuteBasicCommand(st, command), count - 1, command)

\* execute_for
ExecuteFor(st, args) ==
    LET parts == SplitWhitespace(args)
    IN  IF Len(parts) >= 5 /\ parts[2] = <<"=">> /\ parts[4] = <<"T","O">> THEN
            LET start == ParseF32(parts[3])
                end   == ParseF32(parts[5])
            IN  IF start.ok /\ end.ok THEN
                    Push([st EXCEPT
                            !.variables = Put(@, parts[1], F32ToStr(start.val)),
                            !.for_stack = Append(@, [var |-> parts[1], current |-> start.val,
                                                     end |-> end.val, step |-> 1])],
                         Line("FOR {} = {} TO {}",
                              <<parts[1], F32ToStr(start.val), F32ToStr(end.val)>>))
                ELSE st
        ELSE st

\* An execute_next that never signals continue
NextNeverContinues(for_stack) == FALSE

\* The continue signal of execute_next
NextContinues(for_stack) ==
    /\ for_stack # <<>>
    /\ LET f == for_stack[Len(for_stack)]
       IN  F32Add(f.current, f.step) <= f.end

\* An execute_next that, on continue, takes the cursor back one line
ExecuteNextLoopsBack(st) ==
    IF st.for_stack = <<>> THEN st
    ELSE LET n == Len(st.for_stack)
             f == st.for_stack[n]
             new_current == F32Add(f.current, f.step)
         IN  IF new_current <= f.end THEN
                 Push([st EXCEPT !.for_stack[n].current = new_current,
                                 !.variables = Put(@, f.var, F32ToStr(new_current)),
                                 !.i = @ - 1],
                      Line("NEXT {} = {}", <<f.var, F32ToStr(new_current)>>))
             ELSE
                 Push([st EXCEPT !.for_stack = SubSeq(@, 1, n - 1)],
                      Line("END FOR {}", <<f.var>>))

\* execute_next: the state after it
ExecuteNext(st) ==
    IF st.for_stack = <<>> THEN st
    ELSE LET n == Len(st.for_stack)
             f == st.for_stack[n]
             new_current == F32Add(f.current, f.step)
         IN  IF new_current <= f.end THEN
                 Push([st EXCEPT !.for_stack[n].current = new_current,
                                 !.variables = Put(@, f.var, F32ToStr(new_current))],
                      Line("NEXT {} = {}", <<f.var, F32ToStr(new_current)>>))
             ELSE
                 Push([st EXCEPT !.for_stack = SubSeq(@, 1, n - 1)],
                      Line("END FOR {}", <<f.var>>))

\* ------------------------------------------------------- BASIC: the parse
\* One source line of execute_tw_basic's parse loop: skipped (blank, REM, '),
\* labelled (a leading u32 and a space) or free-form (keyed by its position)
ParseLine(raw, line_idx) ==
    LET line      == Trim(raw)
        space_pos == FindChar(line, " ")
        line_num  == IF space_pos = None THEN None ELSE ParseU32(Slice(line, 0, space_pos))
    IN  IF line = <<>> \/ StartsWith(line, <<"R","E","M">>) \/ StartsWith(line, <<"'">>)
        THEN [kind |-> "skip", num |-> 0, cmd |-> <<>>]
        ELSE IF line_num # None
        THEN [kind |-> "labelled", num |-> line_num, cmd |-> Trim(From(line, space_pos))]
        ELSE [kind |-> "free", num |-> line_idx, cmd |-> line]

\* lines.push((num, command)) over the source, in source order
RECURSIVE ParsedLines(_, _)
ParsedLines(src, n) ==
    IF n = 0 THEN <<>>
    ELSE LET p == ParseLine(src[n], n - 1)
         IN  IF p.kind = "skip" THEN ParsedLines(src, n - 1)
             ELSE Append(ParsedLines(src, n - 1), [num |-> p.num, cmd |-> p.cmd])

\* line_numbers.insert(line_num, line_idx) over the source: the value stored
\* for a label is the index of its line in the source text
RECURSIVE LineNumbers(_, _)
LineNumbers(src, n) ==
    IF n = 0 THEN EmptyMap
    ELSE LET p == ParseLine(src[n], n - 1)
         IN  IF p.kind = "labelled"
             THEN Put(LineNumbers(src, n - 1), p.num, n - 1)
             ELSE LineNumbers(src, n - 1)

\* A sort by key that is not stable: a line goes before the lines of equal key
RECURSIVE SortByKeyUnstable(_)
SortByKeyUnstable(ls) ==
    IF ls = <<>> THEN <<>>
    ELSE LET e    == ls[Len(ls)]
             rest == SortByKeyUnstable(SubSeq(ls, 1, Len(ls) - 1))
             k    == Cardinality({j \in 1..Len(rest) : rest[j].num < e.num})
         IN  SubSeq(rest, 1, k) \o <<e>> \o SubSeq(rest, k + 1, Len(rest))

\* slice::sort_by_key: a stable sort, here by insertion
RECURSIVE SortByKey(_)
SortByKey(ls) ==
    IF ls = <<>> THEN <<>>
    ELSE LET e    == ls[Len(ls)]
             rest == SortByKey(SubSeq(ls, 1, Len(ls) - 1))
             k    == Cardinality({j \in 1..Len(rest) : rest[j].num <= e.num})
         IN  SubSeq(rest, 1, k) \o <<e>> \o SubSeq(rest, k + 1, Len(rest))

\* The program as the main loop sees it: sorted when some key is positive
ProgramLines(src) ==
    LET ls == ParsedLines(src, Len(src))
    IN  IF \E j \in 1..Len(ls) : ls[j].num > 0 THEN SortByKey(ls) ELSE ls

\* --------------------------------------------------- BASIC: the main loop
\* i += 1 at the end of the loop body
Advance(st) == [st EXCEPT !.i = @ + 1]

\* i = new_i; continue   for a label found in line_numbers, else fall through
JumpTo(st, line_numbers, label) ==
    IF label # None /\ Has(line_numbers, label)
    THEN [st EXCEPT !.i = line_numbers[label]]
    ELSE Advance(st)

\* A forward scan that stops at the first WEND, nested or not
RECURSIVE SkipToFirstWend(_, _, _)
SkipToFirstWend(lines, i, nest_level) ==
    IF i + 1 < Len(lines) /\ nest_level > 0 THEN
        SkipToFirstWend(lines, i + 1,
                        IF ToUpper(lines[i + 2].cmd) = <<"W","E","N","D">> THEN 0 ELSE nest_level)
    ELSE i

\* WHILE with a false condition: the forward scan for the balancing WEND
RECURSIVE SkipToWend(_, _, _)
SkipToWend(lines, i, nest_level) ==
    IF i + 1 < Len(lines) /\ nest_level > 0 THEN
        LET next_cmd == ToUpper(lines[i + 2].cmd)
        IN  SkipToWend(lines, i + 1,
                       IF StartsWith(next_cmd, <<"W","H","I","L","E"," ">>) THEN nest_level + 1
                       ELSE IF next_cmd = <<"W","E","N","D">> THEN nest_level - 1
                       ELSE nest_level)
    ELSE i

\* WEND: the backward scan for the balancing WHILE
RECURSIVE ScanToWhile(_, _, _)
ScanToWhile(lines, while_i, nest_level) ==
    IF while_i > 0 /\ nest_level > 0 THEN
        LET while_cmd == ToUpper(lines[while_i].cmd)
        IN  ScanToWhile(lines, while_i - 1,
                        IF while_cmd = <<"W","E","N","D">> THEN nest_level + 1
                        ELSE IF StartsWith(while_cmd, <<"W","H","I","L","E"," ">>) THEN nest_level - 1
                        ELSE nest_level)
    ELSE while_i

\* A turtle command with a numeric argument: parse, delegate, echo
TurtleMove(st, text, name, fmt) ==
    LET v == ParseF32(Trim(text))
    IN  IF v.ok
        THEN Push(ExecuteTurtleCommand(st, name \o <<" ">> \o F32ToStr(v.val)),
                  Line(fmt, <<F32ToStr(v.val)>>))
        ELSE st

\* A GOSUB that pushes the call site only when the label is found
ExecuteGosubIfFound(st, line_numbers, label) ==
    IF label # None /\ Has(line_numbers, label)
    THEN [st EXCEPT !.gosub_stack = Append(@, st.i), !.i = line_numbers[label]]
    ELSE Advance(st)

\* GOSUB: gosub_stack.push(i) when the operand parses, then the jump
ExecuteGosub(st, line_numbers, label) ==
    IF label = None THEN Advance(st)
    ELSE JumpTo([st EXCEPT !.gosub_stack = Append(@, st.i)], line_numbers, label)

\* A RETURN that takes position 0 when the call stack is empty
ExecuteReturnOrRestart(st) ==
    IF st.gosub_stack # <<>>
    THEN [st EXCEPT !.i = st.gosub_stack[Len(st.gosub_stack)],
                    !.gosub_stack = SubSeq(@, 1, Len(@) - 1)]
    ELSE [st EXCEPT !.i = 0]

\* RETURN: i = gosub_stack.pop(); continue
ExecuteReturn(st) ==
    IF st.gosub_stack # <<>>
    THEN [st EXCEPT !.i = st.gosub_stack[Len(st.gosub_stack)],
                    !.gosub_stack = SubSeq(@, 1, Len(@) - 1)]
    ELSE Advance(st)

\* One iteration of `while i < lines.len()` in execute_tw_basic
BasicStep(st, lines, line_numbers) ==
    LET command   == lines[st.i + 1].cmd
        cmd_upper == ToUpper(command)
        cmd_trim  == Trim(command)
        n         == Len(command)
    IN
    IF StartsWith(cmd_upper, <<"P","R","I","N","T">>) \/ StartsWith(cmd_upper, <<"?">>) THEN
        IF StartsWith(cmd_upper, <<"?">>) THEN Advance(ExecutePrint(st, Trim(From(command, 1))))
        ELSE IF SliceOk(command, 6, n) THEN Advance(ExecutePrint(st, Trim(From(command, 6))))
        ELSE Panic(st)
    ELSE IF StartsWith(cmd_upper, <<"L","E","T"," ">>) THEN Advance(ExecuteLet(st, From(command, 4)))
    ELSE IF StartsWith(cmd_upper, <<"I","N","P","U","T">>) THEN
        IF SliceOk(command, 6, n) THEN Advance(ExecuteInput(st, From(command, 6)))
        ELSE Panic(st)
    ELSE IF StartsWith(cmd_upper, <<"I","F"," ">>) THEN
        LET then_pos == FindStr(cmd_upper, <<" ","T","H","E","N"," ">>)
        IN  IF then_pos = None THEN Advance(st)
            ELSE IF ~SliceOk(command, 3, then_pos) THEN Panic(st)
            ELSE LET condition == Slice(command, 3, then_pos)
                     then_part == Trim(From(command, then_pos + 6))
                 IN  IF ~EvaluateCondition(st.variables, condition) THEN Advance(st)
                     ELSE IF ParseU32(then_part) # None
                     THEN JumpTo(st, line_numbers, ParseU32(then_part))
                     ELSE LET r == ExecuteBasicCommand(st, then_part)
                          IN  IF r.panicked THEN r ELSE Advance(r)
    ELSE IF StartsWith(cmd_upper, <<"G","O","T","O"," ">>) THEN
        JumpTo(st, line_numbers, ParseU32(Trim(From(command, 5))))
    ELSE IF StartsWith(cmd_upper, <<"G","O","S","U","B"," ">>) THEN
        ExecuteGosub(st, line_numbers, ParseU32(Trim(From(command, 6))))
    ELSE IF cmd_upper = <<"R","E","T","U","R","N">> THEN ExecuteReturn(st)
    ELSE IF StartsWith(cmd_upper, <<"F","O","R"," ">>) THEN Advance(ExecuteFor(st, From(command, 4)))
    ELSE IF cmd_upper = <<"N","E","X","T">> THEN
        IF NextContinues(st.for_stack) THEN ExecuteNext(st) ELSE Advance(ExecuteNext(st))
    ELSE IF StartsWith(cmd_upper, <<"W","H","I","L","E"," ">>) THEN
        IF ~EvaluateCondition(st.variables, From(command, 6))
        THEN Advance([st EXCEPT !.i = SkipToWend(lines, st.i, 1)])
        ELSE Advance(st)
    ELSE IF cmd_upper = <<"W","E","N","D">> THEN
        LET while_i   == ScanToWhile(lines, st.i, 1)
            while_cmd == lines[while_i + 1].cmd
        IN  IF /\ while_i < st.i
               /\ StartsWith(ToUpper(while_cmd), <<"W","H","I","L","E"," ">>)
               /\ EvaluateCondition(st.variables, From(while_cmd, 6))
            THEN [st EXCEPT !.i = while_i]
            ELSE Advance(st)
    ELSE IF StartsWith(cmd_upper, <<"C","L","S">>) THEN
        Advance([st EXCEPT !.out = <<Line("Screen cleared.", <<>>)>>])
    ELSE IF StartsWith(cmd_upper, <<"C","O","L","O","R"," ">>) THEN
        LET color == ParseU32(Trim(From(command, 6)))
        IN  IF color # None /\ color <= 255
            THEN Advance(Push(st, Line("Color set to {}", <<IntToStr(color)>>)))
            ELSE Advance(st)
    ELSE IF StartsWith(cmd_upper, <<"B","E","E","P">>) THEN Advance(Push(st, Line("BEEP!", <<>>)))
    ELSE IF StartsWith(cmd_upper, <<"S","O","U","N","D"," ">>) THEN
        Advance(Push(st, Line("Sound: {}", <<From(command, 6)>>)))
    ELSE IF StartsWith(cmd_trim, <<"T",":">>) THEN
        Advance(Push(st, Line("QUESTION: {}", <<Trim(From(cmd_trim, 2))>>)))
    ELSE IF StartsWith(cmd_trim, <<"A",":">>) THEN
        Advance(Push(Push(st, Line("ACCEPT: {}", <<Trim(From(cmd_trim, 2))>>)),
                     Line("(Waiting for user input...)", <<>>)))
    ELSE IF StartsWith(cmd_trim, <<"J",":">>) THEN
        JumpTo(st, line_numbers, ParseU32(Trim(From(cmd_trim, 2))))
    ELSE IF StartsWith(cmd_trim, <<"M",":">>) THEN
        Advance(Push(st, Line("MATCH: {}", <<Trim(From(cmd_trim, 2))>>)))
    ELSE IF StartsWith(cmd_trim, <<"U",":">>) THEN
        Advance(Push(st, Line("USE: {}", <<Trim(From(cmd_trim, 2))>>)))
    ELSE IF StartsWith(cmd_trim, <<"Y",":">>) THEN
        Advance(Push(st, Line("YES: {}", <<Trim(From(cmd_trim, 2))>>)))
    ELSE IF StartsWith(cmd_trim, <<"N",":">>) THEN
        Advance(Push(st, Line("NO: {}", <<Trim(From(cmd_trim, 2))>>)))
    ELSE IF StartsWith(cmd_upper, <<"F","O","R","W","A","R","D"," ">>) \/ StartsWith(cmd_upper, <<"F","D"," ">>) THEN
        Advance(TurtleMove(st, From(command, IF StartsWith(cmd_upper, <<"F","O","R","W","A","R","D"," ">>) THEN 8 ELSE 3),
                           <<"F","O","R","W","A","R","D">>, "Turtle forward {}"))
    ELSE IF StartsWith(cmd_upper, <<"B","A","C","K","W","A","R","D"," ">>) \/ StartsWith(cmd_upper, <<"B","K"," ">>) THEN
        Advance(TurtleMove(st, From(command, IF StartsWith(cmd_upper, <<"B","A","C","K","W","A","R","D"," ">>) THEN 9 ELSE 3),
                           <<"B","A","C","K","W","A","R","D">>, "Turtle backward {}"))
    ELSE IF StartsWith(cmd_upper, <<"R","I","G","H","T"," ">>) \/ StartsWith(cmd_upper, <<"R","T"," ">>) THEN
        Advance(TurtleMove(st, From(command, IF StartsWith(cmd_upper, <<"R","I","G","H","T"," ">>) THEN 6 ELSE 3),
                           <<"R","I","G","H","T">>, "Turtle right {}"))
    ELSE IF StartsWith(cmd_upper, <<"L","E","F","T"," ">>) \/ StartsWith(cmd_upper, <<"L","T"," ">>) THEN
        Advance(TurtleMove(st, From(command, IF StartsWith(cmd_upper, <<"L","E","F","T"," ">>) THEN 5 ELSE 3),
                           <<"L","E","F","T">>, "Turtle left {}"))
    ELSE IF cmd_upper = <<"P","E","N","U","P">> \/ cmd_upper = <<"P","U">> THEN
        Advance(Push(ExecuteTurtleCommand(st, <<"P","E","N","U","P">>), Line("Pen up", <<>>)))
    ELSE IF cmd_upper = <<"P","E","N","D","O","W","N">> \/ cmd_upper = <<"P","D">> THEN
        Advance(Push(ExecuteTurtleCommand(st, <<"P","E","N","D","O","W","N">>), Line("Pen down", <<>>)))
    ELSE IF cmd_upper = <<"H","O","M","E">> THEN
        Advance(Push(ExecuteTurtleCommand(st, <<"H","O","M","E">>), Line("Turtle home", <<>>)))
    ELSE IF cmd_upper = <<"C","L","E","A","R","S","C","R","E","E","N">> \/ cmd_upper = <<"C","S">> THEN
        Advance(Push(ExecuteTurtleCommand(st, <<"C","L","E","A","R","S","C","R","E","E","N">>), Line("Screen cleared", <<>>)))
    ELSE IF StartsWith(cmd_upper, <<"S","E","T","P","E","N","C","O","L","O","R"," ">>) \/ StartsWith(cmd_upper, <<"S","E","T","P","C"," ">>) THEN
        Advance(Push(st, Line("Pen color set to {}",
            <<From(command, IF StartsWith(cmd_upper, <<"S","E","T","P","E","N","C","O","L","O","R"," ">>) THEN 12 ELSE 6)>>)))
    ELSE IF StartsWith(cmd_upper, <<"M","A","K","E"," ">>) THEN
        LET rest == From(command, 5)
            q    == Quoted(rest)
        IN  IF q.ok
            THEN LET var_name == Trim(Slice(rest, 0, FindChar(rest, "\"")))
                 IN  Advance(Push([st EXCEPT !.variables = Put(@, var_name, q.text)],
                                  Line("{} = \"{}\"", <<var_name, q.text>>)))
            ELSE Advance(st)
    ELSE IF StartsWith(cmd_upper, <<"R","E","P","E","A","T"," ">>) THEN
        LET space_pos == FindChar(From(command, 7), " ")
            count     == IF space_pos = None THEN None
                         ELSE ParseU32(Trim(Slice(command, 7, 7 + space_pos)))
        IN  IF count = None THEN Advance(st)
            ELSE LET r == RepeatCommand(st, count, Trim(From(command, 7 + space_pos + 1)))
                 IN  IF r.panicked THEN r ELSE Advance(r)
    ELSE IF command # <<>> THEN Advance(Push(st, Line("Unknown command: {}", <<command>>)))
    ELSE Advance(st)

\* ----------------------------------------------------------------- Pascal
\* One iteration of `while i < lines.len()` in execute_tw_pascal; src is
\* code.lines()
PascalStep(st, src) ==
    LET line       == Trim(src[st.i + 1])
        line_lower == ToLower(line)
        n          == Len(line)
        q          == FindChar(line, "'")
        qe         == IF q = None THEN None ELSE FindChar(From(line, q + 1), "'")
        paren_pos  == FindChar(line, "(")
    IN
    IF line = <<>> \/ StartsWith(line_lower, <<"(","*">>) \/ StartsWith(line, <<"{">>)
    THEN Advance(st)
    ELSE IF StartsWith(line_lower, <<"w","r","i","t","e","l","n","(">>) THEN
        IF q # None THEN
            IF qe # None THEN Advance(Push(st, Line("{}", <<Slice(line, q + 1, q + 1 + qe)>>)))
            ELSE Advance(st)
        ELSE IF Contains(line, <<")",";">>) THEN
            IF ~SliceOk(line, 8, n - 2) THEN Panic(st)
            ELSE LET var_part == Trim(Slice(line, 8, n - 2))
                 IN  IF Has(st.variables, var_part)
                     THEN Advance(Push(st, Line("{}", <<st.variables[var_part]>>)))
                     ELSE Advance(Push(st, Line("Undefined variable: {}", <<var_part>>)))
        ELSE Advance(st)
    ELSE IF StartsWith(line_lower, <<"w","r","i","t","e","(">>) THEN
        IF q # None /\ qe # None
        THEN Advance(Push(st, Line("{}", <<Slice(line, q + 1, q + 1 + qe)>>)))
        ELSE Advance(st)
    ELSE IF StartsWith(line_lower, <<"r","e","a","d","l","n","(">>) THEN
        IF ~SliceOk(line, 7, n - 1) THEN Panic(st)
        ELSE LET var_part == Trim(Slice(line, 7, n - 1))
                 prompt   == Line("Enter value for {}:", <<var_part>>)
             IN  Advance(Push([st EXCEPT !.input_prompt = prompt,
                                         !.current_input_var = var_part,
                                         !.waiting_for_input = TRUE, !.raised = TRUE],
                              Line(prompt.fmt \o " ", prompt.args)))
    ELSE IF StartsWith(line_lower, <<"i","f"," ">>) THEN
        Advance(Push(st, Line("IF statement: {}", <<line>>)))
    ELSE IF StartsWith(line_lower, <<"f","o","r"," ">>) THEN
        Advance(Push(st, Line("FOR loop: {}", <<line>>)))
    ELSE IF StartsWith(line_lower, <<"w","h","i","l","e"," ">>) THEN
        Advance(Push(st, Line("WHILE loop: {}", <<line>>)))
    ELSE IF StartsWith(line_lower, <<"r","e","p","e","a","t">>) THEN
        Advance(Push(st, Line("REPEAT loop started", <<>>)))
    ELSE IF line_lower = <<"u","n","t","i","l">> THEN
        Advance(Push(st, Line("REPEAT loop ended", <<>>)))
    ELSE IF StartsWith(line_lower, <<"c","a","s","e"," ">>) THEN
        Advance(Push(st, Line("CASE statement: {}", <<line>>)))
    ELSE IF StartsWith(line_lower, <<"p","r","o","c","e","d","u","r","e"," ">>) THEN
        IF paren_pos # None
        THEN Advance(Push(st, Line("Procedure defined: {}", <<Trim(Slice(line, 10, paren_pos))>>)))
        ELSE Advance(Push(st, Line("Procedure defined: {}", <<Trim(From(line, 10))>>)))
    ELSE IF StartsWith(line_lower, <<"f","u","n","c","t","i","o","n"," ">>) THEN
        IF paren_pos # None
        THEN Advance(Push(st, Line("Function defined: {}", <<Trim(Slice(line, 9, paren_pos))>>)))
        ELSE Advance(st)
    ELSE IF StartsWith(line_lower, <<"v","a","r"," ">>) THEN
        Advance(Push(st, Line("Variable declaration: {}", <<From(line, 4)>>)))
    ELSE IF StartsWith(line_lower, <<"c","o","n","s","t"," ">>) THEN
        Advance(Push(st, Line("Constant declaration: {}", <<From(line, 6)>>)))
    ELSE IF StartsWith(line_lower, <<"t","y","p","e"," ">>) THEN
        Advance(Push(st, Line("Type declaration: {}", <<From(line, 5)>>)))
    ELSE IF StartsWith(line_lower, <<"p","r","o","g","r","a","m"," ">>) THEN
        IF FindChar(line, ";") # None
        THEN Advance(Push(st, Line("Program: {}", <<Trim(Slice(line, 8, FindChar(line, ";")))>>)))
        ELSE Advance(st)
    ELSE IF StartsWith(line_lower, <<"b","e","g","i","n">>) THEN Advance(Push(st, Line("Block begin", <<>>)))
    ELSE IF line_lower = <<"e","n","d",".">> \/ line_lower = <<"e","n","d",";">> THEN
        Advance(Push(st, Line("Block/Program end", <<>>)))
    ELSE IF Contains(line_lower, <<"l","e","n","g","t","h","(">>) THEN
        Advance(Push(st, Line("String length function called", <<>>)))
    ELSE IF Contains(line_lower, <<"p","o","s","(">>) THEN
        Advance(Push(st, Line("String position function called", <<>>)))
    ELSE IF Contains(line_lower, <<"c","o","p","y","(">>) THEN
        Advance(Push(st, Line("String copy function called", <<>>)))
    ELSE IF Contains(line_lower, <<"s","q","r","t","(">>) THEN
        Advance(Push(st, Line("Square root function called", <<>>)))
    ELSE IF Contains(line_lower, <<"s","i","n","(">>) \/ Contains(line_lower, <<"c","o","s","(">>)
            \/ Contains(line_lower, <<"a","r","c","t","a","n","(">>) THEN
        Advance(Push(st, Line("Trigonometric function called", <<>>)))
    ELSE IF Contains(line, <<":","=">>) THEN
        LET parts == Split(line, <<":","=">>)
        IN  IF Len(parts) = 2
            THEN LET var_name == Trim(parts[1])
                     value    == TrimEndMatches(Trim(parts[2]), ";")
                 IN  Advance(Push([st EXCEPT !.variables = Put(@, var_name, value)],
                                  Line("{} := {}", <<var_name, value>>)))
            ELSE Advance(st)
    ELSE IF line # <<>> /\ ~EndsWith(line, <<";">>) /\ ~EndsWith(line, <<".">>) THEN
        Advance(Push(st, Line("Pascal statement: {}", <<line>>)))
    ELSE Advance(st)

\* ----------------------------------------------------------------- Prolog
\* s.split('(').next(): the text before the first '('
BeforeParen(s) == Split(s, <<"(">>)[1]

\* A declaration that leaves the clauses of a name already registered
DeclareOnce(preds, name) ==
    IF name \in DOMAIN preds THEN preds ELSE [k \in DOMAIN preds \cup {name} |->
                                               IF k = name THEN <<>> ELSE preds[k]]

\* predicates.insert(pred_name, Vec::new())
Declare(preds, name) == Put(preds, name, <<>>)

\* predicates.get_mut(name) then push(clause): only a registered name stores
StoreClause(preds, name, clause) ==
    IF Has(preds, name) THEN [preds EXCEPT ![name] = Append(@, clause)] ELSE preds

\* for clause in rules_facts { output.push(format!("    {}", clause)) }
RECURSIVE PushClauses(_, _)
PushClauses(st, clauses) ==
    IF clauses = <<>> THEN st
    ELSE PushClauses(Push(st, Line("    " \o Head(clauses).fmt, Head(clauses).args)),
                     Tail(clauses))

\* One iteration of `while i < lines.len()` in execute_tw_prolog
PrologStep(st, src) ==
    LET line  == Trim(src[st.i + 1])
        lower == ToLower(line)
        hasP  == Contains(line, <<"(">>)
        hasN  == Contains(line, <<":","-">>)
        dot   == EndsWith(line, <<".">>)
    IN
    IF line = <<>> \/ StartsWith(line, <<"%">>) \/ StartsWith(line, <<"/","*">>)
    THEN Advance(st)
    ELSE IF StartsWith(lower, <<"d","o","m","a","i","n","s">>) THEN Advance(Push(st, Line("DOMAINS section:", <<>>)))
    ELSE IF StartsWith(lower, <<"p","r","e","d","i","c","a","t","e","s">>) THEN Advance(Push(st, Line("PREDICATES section:", <<>>)))
    ELSE IF StartsWith(lower, <<"g","o","a","l">>) THEN Advance(Push(st, Line("GOAL section:", <<>>)))
    ELSE IF StartsWith(lower, <<"c","l","a","u","s","e","s">>) THEN Advance(Push(st, Line("CLAUSES section:", <<>>)))
    ELSE IF Contains(line, <<"=">>) /\ ~hasN /\ ~hasP THEN
        Advance(Push(st, Line("Domain: {}", <<line>>)))
    ELSE IF hasP /\ Contains(line, <<")">>) /\ ~hasN /\ ~Contains(line, <<".">>) THEN
        LET pred_name == Trim(Slice(line, 0, FindChar(line, "(")))
        IN  Advance(Push([st EXCEPT !.predicates = Declare(@, pred_name)],
                         Line("Predicate declared: {}", <<pred_name>>)))
    ELSE IF hasN THEN
        LET parts == Split(line, <<":","-">>)
        IN  IF Len(parts) = 2
            THEN LET head == Trim(parts[1])
                     body == TrimEndMatches(Trim(parts[2]), ".")
                 IN  Advance(Push([st EXCEPT !.predicates =
                                      StoreClause(@, Trim(BeforeParen(head)),
                                                  Line("{} :- {}", <<head, body>>))],
                                  Line("Rule: {} :- {}", <<head, body>>)))
            ELSE Advance(st)
    ELSE IF dot /\ hasP THEN
        LET fact == TrimEndMatches(line, ".")
        IN  Advance(Push([st EXCEPT !.predicates =
                             StoreClause(@, Trim(BeforeParen(fact)), Line("{}", <<fact>>))],
                         Line("Fact: {}", <<fact>>)))
    ELSE IF dot /\ ~hasP /\ ~hasN THEN
        LET query     == TrimEndMatches(line, ".")
            pred_name == BeforeParen(query)
            asked     == Push(st, Line("Query: {}", <<query>>))
        IN  IF Has(st.predicates, Trim(pred_name)) THEN
                LET rules_facts == st.predicates[Trim(pred_name)]
                IN  IF rules_facts # <<>>
                    THEN Advance(PushClauses(
                             Push(asked, Line("  Found {} clause(s) for {}",
                                              <<IntToStr(Len(rules_facts)), pred_name>>)),
                             rules_facts))
                    ELSE Advance(Push(asked, Line("  No clauses found for {}", <<pred_name>>)))
            ELSE Advance(Push(asked, Line("  Unknown predicate: {}", <<pred_name>>)))
    ELSE IF Contains(lower, <<"w","r","i","t","e","(">>) THEN
        LET q  == FindChar(line, "\"")
            qt == Quoted(line)
        IN  Advance(Push(st, IF q = None THEN Line("WRITE: {}", <<<<"v","a","r","i","a","b","l","e">>>>)
                             ELSE IF qt.ok THEN Line("WRITE: {}", <<qt.text>>)
                             ELSE Line("WRITE: {}", <<<<"u","n","k","n","o","w","n">>>>)))
    ELSE IF Contains(lower, <<"n","l">>) THEN Advance(Push(st, Line("NEWLINE", <<>>)))
    ELSE IF Contains(lower, <<"r","e","a","d","l","n","(">>) THEN
        LET prompt == Line("Enter value for readln:", <<>>)
        IN  Advance(Push([st EXCEPT !.input_prompt = prompt,
                                    !.current_input_var = <<"R","E","A","D","L","N">>,
                                    !.waiting_for_input = TRUE, !.raised = TRUE],
                         Line(prompt.fmt \o " ", prompt.args)))
    ELSE IF Contains(line, <<"+">>) \/ Contains(line, <<"-">>) \/ Contains(line, <<"*">>)
            \/ Contains(line, <<"/">>) THEN
        Advance(Push(st, Line("Arithmetic expression: {}", <<line>>)))
    ELSE IF Contains(line, <<"=">>) \/ Contains(line, <<">">>) \/ Contains(line, <<"<">>) THEN
        Advance(Push(st, Line("Comparison: {}", <<line>>)))
    ELSE IF line # <<>> /\ ~dot THEN Advance(Push(st, Line("Prolog statement: {}", <<line>>)))
    ELSE Advance(st)

\* ------------------------------------------------------------------ state
VARIABLES
    \* TimeWarpApp (the fields the core reads or writes)
    code,               \* the editor's text, as code.lines()
    language,
    output,             \* the visible output, as the pieces appended to it
    variables,          \* the Variable Store
    turtle_state,       \* the Turtle Pose
    turtle_commands,    \* the Segment Log
    is_executing,
    waiting_for_input,  \* Suspension Record: pending
    input_prompt,       \* Suspension Record: prompt
    user_input,         \* the text of the input field
    current_input_var,  \* Suspension Record: target variable
    \* the running call of execute_code and its interpreter
    pc,                 \* "idle", the interpreter running, or "panic" (aborted)
    caller,             \* what called execute_code last: "run", "resume", "none"
    lines,              \* execute_tw_basic: the sorted (num, command) list
    line_numbers,       \* execute_tw_basic: the jump index
    i,                  \* the Execution Cursor
    for_stack,
    gosub_stack,
    out,                \* the interpreter's `output` vector (the transcript)
    predicates,         \* execute_tw_prolog: the Clause Database
    result,             \* what the interpreter last returned to execute_code
    \* history
    raised,             \* an input construct has executed in the current call
    last_op,            \* the host operation handled last
    steps,              \* loop iterations of the current call
    ops                 \* host operations so far

app_vars == <<code, language, output, variables, turtle_state, turtle_commands,
              is_executing, waiting_for_input, input_prompt, user_input,
              current_input_var>>
run_vars == <<pc, caller, lines, line_numbers, i, for_stack, gosub_stack, out,
              predicates, result>>
vars == <<app_vars, run_vars, raised, last_op, steps, ops>>

\* --------------------------------------------------------------- programs
\* The source texts the editor may hold, each as its lines.  (The text the
\* editor starts with, main.rs:39, ends with FORWARD 50, RIGHT 90, FORWARD 50:
\* run repeatedly it reaches headings outside the trigonometry modelled above.
\* B_Pilot keeps its PRINT, LET, T:, A: and FORWARD lines.)
\*   REM TW BASIC Code Here
\*   PRINT "Hello, TW BASIC!"
\*   LET X = 42
\*   PRINT X
\*   (blank)
\*   REM PILOT Commands
\*   T:What is your name?
\*   A:NAME
\*   (blank)
\*   REM Logo Commands
\*   FORWARD 50
B_Pilot ==
    <<<<"R","E","M"," ","T","W"," ","B","A","S","I","C"," ","C","o","d","e"," ","H","e","r","e">>,
      <<"P","R","I","N","T"," ","\"","H","e","l","l","o",","," ","T","W"," ","B","A","S","I","C","!","\"">>,
      <<"L","E","T"," ","X"," ","="," ","4","2">>,
      <<"P","R","I","N","T"," ","X">>,
      <<>>,
      <<"R","E","M"," ","P","I","L","O","T"," ","C","o","m","m","a","n","d","s">>,
      <<"T",":","W","h","a","t"," ","i","s"," ","y","o","u","r"," ","n","a","m","e","?">>,
      <<"A",":","N","A","M","E">>,
      <<>>,
      <<"R","E","M"," ","L","o","g","o"," ","C","o","m","m","a","n","d","s">>,
      <<"F","O","R","W","A","R","D"," ","5","0">>>>

\*   10 PRINT "A"
\*   20 LET X = 5
\*   30 PRINT X
B_Hello ==
    <<<<"1","0"," ","P","R","I","N","T"," ","\"","A","\"">>,
      <<"2","0"," ","L","E","T"," ","X"," ","="," ","5">>,
      <<"3","0"," ","P","R","I","N","T"," ","X">>>>

\*   30 PRINT "C"
\*   10 PRINT "A"
\*   (blank)
\*   20 PRINT "B"
\*   20 PRINT "D"
B_Unsorted ==
    <<<<"3","0"," ","P","R","I","N","T"," ","\"","C","\"">>,
      <<"1","0"," ","P","R","I","N","T"," ","\"","A","\"">>,
      <<>>,
      <<"2","0"," ","P","R","I","N","T"," ","\"","B","\"">>,
      <<"2","0"," ","P","R","I","N","T"," ","\"","D","\"">>>>

\*   REM jump
\*   10 GOTO 30
\*   20 PRINT "S"
\*   30 PRINT "T"
B_Goto ==
    <<<<"R","E","M"," ","j","u","m","p">>,
      <<"1","0"," ","G","O","T","O"," ","3","0">>,
      <<"2","0"," ","P","R","I","N","T"," ","\"","S","\"">>,
      <<"3","0"," ","P","R","I","N","T"," ","\"","T","\"">>>>

\*   20 PRINT "B"
\*   10 GOTO 20
B_GotoBack ==
    <<<<"2","0"," ","P","R","I","N","T"," ","\"","B","\"">>,
      <<"1","0"," ","G","O","T","O"," ","2","0">>>>

\*   10 GOSUB 40
\*   20 PRINT "B"
\*   30 GOTO 50
\*   40 RETURN
\*   50 PRINT "E"
B_Gosub ==
    <<<<"1","0"," ","G","O","S","U","B"," ","4","0">>,
      <<"2","0"," ","P","R","I","N","T"," ","\"","B","\"">>,
      <<"3","0"," ","G","O","T","O"," ","5","0">>,
      <<"4","0"," ","R","E","T","U","R","N">>,
      <<"5","0"," ","P","R","I","N","T"," ","\"","E","\"">>>>

\*   INPUT "Name" N
\*   PRINT N
\*   FORWARD 10
B_Input ==
    <<<<"I","N","P","U","T"," ","\"","N","a","m","e","\""," ","N">>,
      <<"P","R","I","N","T"," ","N">>,
      <<"F","O","R","W","A","R","D"," ","1","0">>>>

\*   LET Y = 1
\*   INPUT A
\*   INPUT "Two words" B
B_Input2 ==
    <<<<"L","E","T"," ","Y"," ","="," ","1">>,
      <<"I","N","P","U","T"," ","A">>,
      <<"I","N","P","U","T"," ","\"","T","w","o"," ","w","o","r","d","s","\""," ","B">>>>

\*   PRINT "A"
\*   PRINT
B_BarePrint ==
    <<<<"P","R","I","N","T"," ","\"","A","\"">>,
      <<"P","R","I","N","T">>>>

\*   10 INPUT
B_BareInput ==
    <<<<"1","0"," ","I","N","P","U","T">>>>

\*   FOR I = 1 TO 3
\*   NEXT
\*   PRINT I
B_For13 ==
    <<<<"F","O","R"," ","I"," ","="," ","1"," ","T","O"," ","3">>,
      <<"N","E","X","T">>,
      <<"P","R","I","N","T"," ","I">>>>

\*   10 FOR J = 2 TO 2
\*   20 NEXT
B_For22 ==
    <<<<"1","0"," ","F","O","R"," ","J"," ","="," ","2"," ","T","O"," ","2">>,
      <<"2","0"," ","N","E","X","T">>>>

\*   FOR K = -1 TO 1
\*   NEXT
B_ForNeg ==
    <<<<"F","O","R"," ","K"," ","="," ","-","1"," ","T","O"," ","1">>,
      <<"N","E","X","T">>>>

\*   FOR I = 16777215 TO 16777216
\*   NEXT
B_ForBig ==
    <<<<"F","O","R"," ","I"," ","="," ","1","6","7","7","7","2","1","5"," ","T","O"," ","1","6","7","7","7","2","1","6">>,
      <<"N","E","X","T">>>>

\*   x := 5;
\*   readln(name)
\*   writeln('hi');
\*   y := 7;
P_Readln ==
    <<<<"x"," ",":","="," ","5",";">>,
      <<"r","e","a","d","l","n","(","n","a","m","e",")">>,
      <<"w","r","i","t","e","l","n","(","'","h","i","'",")",";">>,
      <<"y"," ",":","="," ","7",";">>>>

\*   readln()
\*   writeln(x);
P_ReadlnEmpty ==
    <<<<"r","e","a","d","l","n","(",")">>,
      <<"w","r","i","t","e","l","n","(","x",")",";">>>>

\*   begin
\*   readln(
P_Truncated ==
    <<<<"b","e","g","i","n">>,
      <<"r","e","a","d","l","n","(">>>>

\*   bird(X)
\*   bird(tweety).
\*   bird.
\*   fish.
L_Birds ==
    <<<<"b","i","r","d","(","X",")">>,
      <<"b","i","r","d","(","t","w","e","e","t","y",")",".">>,
      <<"b","i","r","d",".">>,
      <<"f","i","s","h",".">>>>

\*   write("hi"
\*   readln(X
L_Readln ==
    <<<<"w","r","i","t","e","(","\"","h","i","\"">>,
      <<"r","e","a","d","l","n","(","X">>>>

\*   PU
\*   FORWARD 20
\*   PD
\*   RIGHT 90
\*   FD 30
\*   HOME
\*   BK 10
\*   CS
B_Turtle ==
    <<<<"P","U">>,
      <<"F","O","R","W","A","R","D"," ","2","0">>,
      <<"P","D">>,
      <<"R","I","G","H","T"," ","9","0">>,
      <<"F","D"," ","3","0">>,
      <<"H","O","M","E">>,
      <<"B","K"," ","1","0">>,
      <<"C","S">>>>

\*   PRINT "A"
\*   RETURN
\*   PRINT "Z"
B_Return ==
    <<<<"P","R","I","N","T"," ","\"","A","\"">>,
      <<"R","E","T","U","R","N">>,
      <<"P","R","I","N","T"," ","\"","Z","\"">>>>

\*   WHILE X = 1
\*   LET X = 0
\*   WEND
\*   LET X = 1
\*   WEND
B_Wend ==
    <<<<"W","H","I","L","E"," ","X"," ","="," ","1">>,
      <<"L","E","T"," ","X"," ","="," ","0">>,
      <<"W","E","N","D">>,
      <<"L","E","T"," ","X"," ","="," ","1">>,
      <<"W","E","N","D">>>>

\*   bird(X)
\*   bird(tweety).
\*   bird(tweety).
L_Query ==
    <<<<"b","i","r","d","(","X",")">>,
      <<"b","i","r","d","(","t","w","e","e","t","y",")",".">>,
      <<"b","i","r","d","(","t","w","e","e","t","y",")",".">>>>

\*   LET X = 0
\*   WHILE X = 1
\*   WHILE X = 0
\*   PRINT "IN"
\*   WEND
\*   WEND
\*   PRINT "OUT"
B_While ==
    <<<<"L","E","T"," ","X"," ","="," ","0">>,
      <<"W","H","I","L","E"," ","X"," ","="," ","1">>,
      <<"W","H","I","L","E"," ","X"," ","="," ","0">>,
      <<"P","R","I","N","T"," ","\"","I","N","\"">>,
      <<"W","E","N","D">>,
      <<"W","E","N","D">>,
      <<"P","R","I","N","T"," ","\"","O","U","T","\"">>>>

\*   LET X = 5
\*   IF X = 5 THEN PRINT "EQ"
\*   IF X = 6 THEN PRINT "NE"
\*   IF X = 05 THEN PRINT "NUM"
\*   IF Y = 6 THEN PRINT "UNBOUND"
\*   IF X =6 THEN PRINT "NOSEP"
\*   IF X = 5 = 5 THEN PRINT "TWO"
B_Cond ==
    <<<<"L","E","T"," ","X"," ","="," ","5">>,
      <<"I","F"," ","X"," ","="," ","5"," ","T","H","E","N"," ","P","R","I","N","T"," ","\"","E","Q","\"">>,
      <<"I","F"," ","X"," ","="," ","6"," ","T","H","E","N"," ","P","R","I","N","T"," ","\"","N","E","\"">>,
      <<"I","F"," ","X"," ","="," ","0","5"," ","T","H","E","N"," ","P","R","I","N","T"," ","\"","N","U","M","\"">>,
      <<"I","F"," ","Y"," ","="," ","6"," ","T","H","E","N"," ","P","R","I","N","T"," ","\"","U","N","B","O","U","N","D","\"">>,
      <<"I","F"," ","X"," ","=","6"," ","T","H","E","N"," ","P","R","I","N","T"," ","\"","N","O","S","E","P","\"">>,
      <<"I","F"," ","X"," ","="," ","5"," ","="," ","5"," ","T","H","E","N"," ","P","R","I","N","T"," ","\"","T","W","O","\"">>>>

\*   REPEAT 2 PRINT "A"
\*   REPEAT 2 LET X = 1
\*   REPEAT 2 FORWARD 10
B_Repeat ==
    <<<<"R","E","P","E","A","T"," ","2"," ","P","R","I","N","T"," ","\"","A","\"">>,
      <<"R","E","P","E","A","T"," ","2"," ","L","E","T"," ","X"," ","="," ","1">>,
      <<"R","E","P","E","A","T"," ","2"," ","F","O","R","W","A","R","D"," ","1","0">>>>

\*   PRINT "A"
\*   CLS
\*   PRINT "B"
B_Cls ==
    <<<<"P","R","I","N","T"," ","\"","A","\"">>,
      <<"C","L","S">>,
      <<"P","R","I","N","T"," ","\"","B","\"">>>>

\*   INPUT "A b c" V
B_Input3 ==
    <<<<"I","N","P","U","T"," ","\"","A"," ","b"," ","c","\""," ","V">>>>

\*   fish(nemo).
\*   swims(X) :- fish(X).
\*   fish.
L_Fish ==
    <<<<"f","i","s","h","(","n","e","m","o",")",".">>,
      <<"s","w","i","m","s","(","X",")"," ",":","-"," ","f","i","s","h","(","X",")",".">>,
      <<"f","i","s","h",".">>>>

\*   x := 5;
\*   y := sqrt(4);
P_Sqrt ==
    <<<<"x"," ",":","="," ","5",";">>,
      <<"y"," ",":","="," ","s","q","r","t","(","4",")",";">>>>

\*   readln(X)
\*   readln(Y).
L_ReadlnX ==
    <<<<"r","e","a","d","l","n","(","X",")">>,
      <<"r","e","a","d","l","n","(","Y",")",".">>>>

\*   REM loop
\*   10 GOTO 10
\*   20 PRINT "Z"
B_SelfJump ==
    <<<<"R","E","M"," ","l","o","o","p">>,
      <<"1","0"," ","G","O","T","O"," ","1","0">>,
      <<"2","0"," ","P","R","I","N","T"," ","\"","Z","\"">>>>

\*   readln(
\*   writeln('z');
P_Cut ==
    <<<<"r","e","a","d","l","n","(">>,
      <<"w","r","i","t","e","l","n","(","'","z","'",")",";">>>>

\*   FOR I = 1 TO 3
\*   PRINT I
\*   NEXT
B_ForBody ==
    <<<<"F","O","R"," ","I"," ","="," ","1"," ","T","O"," ","3">>,
      <<"P","R","I","N","T"," ","I">>,
      <<"N","E","X","T">>>>

\*   GOSUB 99
\*   PRINT "A"
\*   RETURN
B_GosubMissing ==
    <<<<"G","O","S","U","B"," ","9","9">>,
      <<"P","R","I","N","T"," ","\"","A","\"">>,
      <<"R","E","T","U","R","N">>>>

\*   bird(X)
\*   bird(tweety).
\*   bird(Y)
\*   bird.
L_Redeclare ==
    <<<<"b","i","r","d","(","X",")">>,
      <<"b","i","r","d","(","t","w","e","e","t","y",")",".">>,
      <<"b","i","r","d","(","Y",")">>,
      <<"b","i","r","d",".">>>>

Programs ==
    {B_Pilot,
     B_Hello,
     B_Unsorted,
     B_Goto,
     B_GotoBack,
     B_Gosub,
     B_Input,
     B_Input2,
     B_BarePrint,
     B_BareInput,
     B_For13,
     B_For22,
     B_ForNeg,
     B_ForBig,
     P_Readln,
     P_ReadlnEmpty,
     P_Truncated,
     L_Birds,
     L_Readln,
     B_Turtle,
     B_Return,
     B_Wend,
     L_Query,
     B_While,
     B_Cond,
     B_Repeat,
     B_Cls,
     B_Input3,
     L_Fish,
     P_Sqrt,
     L_ReadlnX,
     B_SelfJump,
     P_Cut,
     B_ForBody,
     B_GosubMissing,
     L_Redeclare}

\* The texts the user may submit in the input field
InputValues == {<<>>, <<"A","d","a">>}

\* ------------------------------------------------------------------- host
Supported == {"TW BASIC", "TW Pascal", "TW Prolog"}
\* The Language menu
Languages == Supported \cup {"Auto-Detect"}

Running == {"basic", "pascal", "prolog"}

HomePose == [x |-> HomeX, y |-> HomeY, angle |-> 0, pen_down |-> TRUE, color |-> "BLACK"]
NoPrompt == Line("", <<>>)

\* self, as the interpreters and handlers see it
Self ==
    [output |-> output, variables |-> variables, turtle_state |-> turtle_state,
     turtle_commands |-> turtle_commands, is_executing |-> is_executing,
     waiting_for_input |-> waiting_for_input, input_prompt |-> input_prompt,
     user_input |-> user_input, current_input_var |-> current_input_var]

\* self together with the locals of the running interpreter
St ==
    [output |-> output, variables |-> variables, turtle_state |-> turtle_state,
     turtle_commands |-> turtle_commands, is_executing |-> is_executing,
     waiting_for_input |-> waiting_for_input, input_prompt |-> input_prompt,
     user_input |-> user_input, current_input_var |-> current_input_var,
     out |-> out, i |-> i, for_stack |-> for_stack, gosub_stack |-> gosub_stack,
     predicates |-> predicates, panicked |-> FALSE, raised |-> raised]

SetSelf(a) ==
    /\ output' = a.output
    /\ variables' = a.variables
    /\ turtle_state' = a.turtle_state
    /\ turtle_commands' = a.turtle_commands
    /\ is_executing' = a.is_executing
    /\ waiting_for_input' = a.waiting_for_input
    /\ input_prompt' = a.input_prompt
    /\ user_input' = a.user_input
    /\ current_input_var' = a.current_input_var

NoFrame ==
    /\ lines' = <<>>
    /\ line_numbers' = EmptyMap
    /\ i' = 0
    /\ for_stack' = <<>>
    /\ gosub_stack' = <<>>
    /\ out' = <<>>
    /\ predicates' = EmptyMap

Init ==
    /\ code \in Programs
    /\ language = "TW BASIC"
    /\ output = <<Line("Welcome to Time Warp IDE!\n", <<>>)>>
    /\ variables = EmptyMap
    /\ turtle_state = HomePose
    /\ turtle_commands = <<>>
    /\ is_executing = FALSE
    /\ waiting_for_input = FALSE
    /\ input_prompt = NoPrompt
    /\ user_input = <<>>
    /\ current_input_var = <<>>
    /\ pc = "idle"
    /\ caller = "none"
    /\ lines = <<>>
    /\ line_numbers = EmptyMap
    /\ i = 0
    /\ for_stack = <<>>
    /\ gosub_stack = <<>>
    /\ out = <<>>
    /\ predicates = EmptyMap
    /\ result = <<>>
    /\ raised = FALSE
    /\ last_op = "init"
    /\ steps = 0
    /\ ops = 0

\* A match whose default arm runs the BASIC interpreter
DispatchDefaultBasic(lang) ==
    CASE lang = "TW Pascal" -> "pascal"
      [] lang = "TW Prolog" -> "prolog"
      [] OTHER -> "basic"

\* The match of execute_code: the interpreter a dialect name selects
Dispatch(lang) ==
    CASE lang = "TW BASIC" -> "basic"
      [] lang = "TW Pascal" -> "pascal"
      [] lang = "TW Prolog" -> "prolog"
      [] OTHER -> "none"

\* A display of the result that does not look at the pending flag
ShowResultWhilePending(a, lang, res) ==
    [a EXCEPT !.output = IF a.is_executing
                         THEN <<Line("[Output for " \o lang \o "]\n", <<>>)>> \o res
                         ELSE @,
              !.is_executing = FALSE]

\* execute_code after the interpreter returned: the result is shown unless the
\* run was stopped or a suspension is pending
ShowResult(a, lang, res) ==
    [a EXCEPT !.output = IF a.is_executing /\ ~a.waiting_for_input
                         THEN <<Line("[Output for " \o lang \o "]\n", <<>>)>> \o res
                         ELSE @,
              !.is_executing = FALSE]

\* An execute_code that puts the turtle back in the home pose before it runs
ExecuteCodeFreshPose(a, by) ==
    LET to == Dispatch(language)
        b  == [a EXCEPT !.is_executing = TRUE, !.turtle_state = HomePose]
    IN  /\ caller' = by
        /\ steps' = 0
        /\ raised' = FALSE
        /\ UNCHANGED <<code, language>>
        /\ IF to = "none"
           THEN LET res == <<Line("Language '" \o language \o "' not yet supported for execution", <<>>)>>
                IN  /\ pc' = "idle"
                    /\ result' = res
                    /\ SetSelf(ShowResult(b, language, res))
                    /\ NoFrame
           ELSE /\ pc' = to
                /\ result' = <<>>
                /\ SetSelf(b)
                /\ lines' = IF to = "basic" THEN ProgramLines(code) ELSE code
                /\ line_numbers' = IF to = "basic" THEN LineNumbers(code, Len(code)) ELSE EmptyMap
                /\ i' = 0
                /\ for_stack' = <<>>
                /\ gosub_stack' = <<>>
                /\ out' = <<>>
                /\ predicates' = EmptyMap

\* execute_code, from its first line to the first loop iteration of the
\* interpreter (or, for an unsupported dialect, to its end); a is self as the
\* caller left it
ExecuteCode(a, by) ==
    LET to == Dispatch(language)
        b  == [a EXCEPT !.is_executing = TRUE]
    IN  /\ caller' = by
        /\ steps' = 0
        /\ raised' = FALSE
        /\ UNCHANGED <<code, language>>
        /\ IF to = "none"
           THEN LET res == <<Line("Language '" \o language \o "' not yet supported for execution", <<>>)>>
                IN  /\ pc' = "idle"
                    /\ result' = res
                    /\ SetSelf(ShowResult(b, language, res))
                    /\ NoFrame
           ELSE /\ pc' = to
                /\ result' = <<>>
                /\ SetSelf(b)
                /\ lines' = IF to = "basic" THEN ProgramLines(code) ELSE code
                /\ line_numbers' = IF to = "basic" THEN LineNumbers(code, Len(code)) ELSE EmptyMap
                /\ i' = 0
                /\ for_stack' = <<>>
                /\ gosub_stack' = <<>>
                /\ out' = <<>>
                /\ predicates' = EmptyMap

\* Run Program (menu) and Run (toolbar) call execute_code
Run ==
    /\ pc = "idle"
    /\ ops < MaxOps
    /\ ops' = ops + 1
    /\ last_op' = "run"
    /\ ExecuteCode(Self, "run")

\* One loop iteration of the running interpreter
StepOf(st) ==
    CASE pc = "basic" -> BasicStep(st, lines, line_numbers)
      [] pc = "pascal" -> PascalStep(st, lines)
      [] pc = "prolog" -> PrologStep(st, lines)

\* The state the iteration leaves: r is the interpreter state after it
Leave(r) ==
    /\ SetSelf(r)
    /\ out' = r.out
    /\ i' = r.i
    /\ for_stack' = r.for_stack
    /\ gosub_stack' = r.gosub_stack
    /\ predicates' = r.predicates
    /\ pc' = IF r.panicked THEN "panic" ELSE pc
    /\ raised' = r.raised

Step ==
    /\ pc \in Running
    /\ i < Len(lines)
    /\ steps < MaxSteps
    /\ Leave(StepOf(St))
    /\ steps' = steps + 1
    /\ UNCHANGED <<code, language, caller, lines, line_numbers, result, last_op, ops>>

\* The interpreter's loop ends: output.join("\n") is returned and execute_code
\* finishes
Finish ==
    /\ pc \in Running
    /\ i >= Len(lines)
    /\ pc' = "idle"
    /\ result' = out
    /\ SetSelf(ShowResult(Self, language, out))
    /\ NoFrame
    /\ UNCHANGED <<code, language, caller, raised, last_op, steps, ops>>

\* process_user_input without its emptiness test
InputAlways(text) == TRUE

\* process_user_input acts only on a non-empty input value
InputGiven(text) == text # <<>>

\* process_user_input without the reset of the input state
ProcessUserInputNoReset(a) ==
    [a EXCEPT !.output = Append(@, Line("\n> {}", <<a.user_input>>)),
              !.variables = Put(@, a.current_input_var, a.user_input)]

\* A process_user_input that binds the value under the sentinel as well
ProcessUserInputBindsBoth(a) ==
    [a EXCEPT !.output = Append(@, Line("\n> {}", <<a.user_input>>)),
              !.variables = Put(Put(@, a.current_input_var, a.user_input),
                                <<"I","N","P","U","T">>, a.user_input),
              !.waiting_for_input = FALSE,
              !.input_prompt = NoPrompt,
              !.user_input = <<>>,
              !.current_input_var = <<>>]

\* process_user_input up to its call of execute_code
ProcessUserInput(a) ==
    LET shown  == [a EXCEPT !.output = Append(@, Line("\n> {}", <<a.user_input>>))]
        stored == IF a.current_input_var # <<>>
                  THEN [shown EXCEPT
                          !.variables = Put(@, a.current_input_var, a.user_input),
                          !.output = Append(@, Line("\nStored in variable: {}",
                                                   <<a.current_input_var>>))]
                  ELSE [shown EXCEPT !.variables = Put(@, <<"I","N","P","U","T">>, a.user_input)]
    IN  [stored EXCEPT !.waiting_for_input = FALSE,
                       !.input_prompt = NoPrompt,
                       !.user_input = <<>>,
                       !.current_input_var = <<>>]

\* The input field of the Output tab (shown while waiting_for_input): the text
\* v is entered and submitted, which calls process_user_input
Resume(v) ==
    /\ pc = "idle"
    /\ waiting_for_input
    /\ ops < MaxOps
    /\ ops' = ops + 1
    /\ IF InputGiven(v)
       THEN /\ last_op' = "resume"
            /\ ExecuteCode(ProcessUserInput([Self EXCEPT !.user_input = v]), "resume")
       ELSE /\ last_op' = "resume_empty"
            /\ user_input' = v
            /\ UNCHANGED <<code, language, output, variables, turtle_state, turtle_commands,
                           is_executing, waiting_for_input, input_prompt, current_input_var,
                           run_vars, raised, steps>>

\* Stop Program: stop_execution
StopProgram ==
    /\ pc = "idle"
    /\ ops < MaxOps
    /\ ops' = ops + 1
    /\ last_op' = "stop"
    /\ is_executing' = (IF is_executing THEN FALSE ELSE is_executing)
    /\ output' = (IF is_executing
                  THEN <<Line("Program execution stopped by user.", <<>>)>>
                  ELSE output)
    /\ UNCHANGED <<code, language, variables, turtle_state, turtle_commands,
                   waiting_for_input, input_prompt, user_input, current_input_var,
                   run_vars, raised, steps>>

\* The Language menu
SelectLanguage(lang) ==
    /\ pc = "idle"
    /\ ops < MaxOps
    /\ ops' = ops + 1
    /\ last_op' = "language"
    /\ language' = lang
    /\ output' = <<Line("Language set to " \o lang, <<>>)>>
    /\ UNCHANGED <<code, variables, turtle_state, turtle_commands, is_executing,
                   waiting_for_input, input_prompt, user_input, current_input_var,
                   run_vars, raised, steps>>

\* Clear Turtle Graphics: clear_turtle_graphics
ClearTurtleGraphics ==
    /\ pc = "idle"
    /\ ops < MaxOps
    /\ ops' = ops + 1
    /\ last_op' = "clear_turtle"
    /\ turtle_commands' = <<>>
    /\ turtle_state' = HomePose
    /\ output' = <<Line("Turtle graphics cleared.", <<>>)>>
    /\ UNCHANGED <<code, language, variables, is_executing, waiting_for_input,
                   input_prompt, user_input, current_input_var, run_vars, raised, steps>>

Next ==
    \/ Run
    \/ Step
    \/ Finish
    \/ \E v \in InputValues : Resume(v)
    \/ StopProgram
    \/ \E lang \in Languages : SelectLanguage(lang)
    \/ ClearTurtleGraphics

Spec == Init /\ [][Next]_vars

\* ------------------------------------------------------------- properties
\* The BASIC line under the Execution Cursor, in upper case
AtCmd == ToUpper(lines[i + 1].cmd)

\* The interpreter is about to execute a BASIC line
AtBasicLine == pc = "basic" /\ i < Len(lines)

\* C1: for every label n of a BASIC program, blank lines, comment lines and
\* out-of-order labels included, the jump index maps n to the position, in
\* the sorted line list, of a line labelled n (so GOTO n continues there).
C1_JumpIndexIsSortedPosition ==
    pc = "basic" =>
        \A n \in DOMAIN line_numbers :
            /\ line_numbers[n] < Len(lines)
            /\ lines[line_numbers[n] + 1].num = n

\* C2: a RETURN after a GOSUB to an existing label continues exactly one
\* position after the GOSUB call site, with the call stack one shorter, that
\* is, back to its depth before the GOSUB.
C2_ReturnResumesAfterCall ==
    [][(Step /\ AtBasicLine /\ AtCmd = <<"R","E","T","U","R","N">> /\ gosub_stack # <<>>)
          => /\ i' = gosub_stack[Len(gosub_stack)] + 1
             /\ Len(gosub_stack') = Len(gosub_stack) - 1]_vars

\* C3: once an input construct has executed in a call, that call is suspended
\* and no later line of the program changes the Variable Store, the Turtle
\* Pose, the Segment Log or the transcript.
C3_NoEffectAfterInput ==
    [][(Step /\ raised)
          => /\ waiting_for_input
             /\ UNCHANGED <<variables, turtle_state, turtle_commands, out>>]_vars

\* The name a submitted value is bound under: the recorded target, or INPUT
ResumeTarget ==
    IF current_input_var # <<>> THEN current_input_var ELSE <<"I","N","P","U","T">>

\* C4: Resume with a non-empty value v while suspended binds v under the
\* recorded target variable (under INPUT when none was recorded), clears the
\* Suspension Record, and re-runs the dispatcher on the same source text and
\* dialect from the first line.
C4_ResumeBindsAndReruns ==
    [][\A v \in InputValues : (v # <<>> /\ waiting_for_input /\ Resume(v))
          => /\ variables' = Put(variables, ResumeTarget, v)
             /\ ~waiting_for_input'
             /\ input_prompt' = NoPrompt
             /\ current_input_var' = <<>>
             /\ code' = code
             /\ language' = language
             /\ caller' = "resume"
             /\ i' = 0
             /\ out' = <<>>
             /\ steps' = 0
             /\ language = "TW BASIC" => pc' = "basic" /\ lines' = ProgramLines(code)
             /\ language = "TW Pascal" => pc' = "pascal" /\ lines' = code
             /\ language = "TW Prolog" => pc' = "prolog" /\ lines' = code]_vars

\* A resume has bound the submitted value under the recorded target N and the
\* BASIC interpreter is at the first line again
C4_Resumed ==
    /\ last_op = "resume"
    /\ caller = "resume"
    /\ pc = "basic"
    /\ i = 0
    /\ steps = 0
    /\ ~waiting_for_input
    /\ current_input_var = <<>>
    /\ Has(variables, <<"N">>)
    /\ variables[<<"N">>] = <<"A","d","a">>

\* C5: Resume with an empty value is a no-op: the Suspension Record, the
\* Variable Store, the Turtle Pose, the Segment Log and the visible output
\* stay as they are and the program is not re-run.
C5_EmptyResumeIsNoOp ==
    [][(waiting_for_input /\ Resume(<<>>))
          => /\ waiting_for_input'
             /\ UNCHANGED <<input_prompt, current_input_var, variables, turtle_state,
                            turtle_commands, output, is_executing, run_vars, steps>>]_vars

\* An empty value has been submitted while a suspension was pending
C5_EmptyResumed ==
    /\ last_op = "resume_empty"
    /\ waiting_for_input
    /\ current_input_var # <<>>
    /\ pc = "idle"

\* C6: a Run issued while a Suspension Record is pending does not start a new
\* interpretation.
C6_NoRunWhilePending ==
    [][(Run /\ waiting_for_input) => (pc' \notin Running /\ UNCHANGED out)]_vars

\* C7: a run never aborts with a fatal error, whatever the source text and
\* the dialect.
C7_NeverAborts == pc # "panic"

\* A line of the source text is a comment or blank, or carries a label
LineIsLabelled(k) == ParseLine(code[k], k - 1).kind # "free"

\* A jump or loop construct of BASIC
IsJumpOrLoop(cmd) ==
    \/ \E kw \in {<<"I","F"," ">>, <<"G","O","T","O"," ">>, <<"G","O","S","U","B"," ">>,
                  <<"F","O","R"," ">>, <<"W","H","I","L","E"," ">>, <<"J",":">>,
                  <<"R","E","P","E","A","T"," ">>} : StartsWith(ToUpper(cmd), kw)
    \/ ToUpper(cmd) \in {<<"R","E","T","U","R","N">>, <<"N","E","X","T">>, <<"W","E","N","D">>}

\* The running BASIC program is fully labelled and has no jump or loop
LabelledStraightLine ==
    /\ pc = "basic"
    /\ \A k \in 1..Len(code) : LineIsLabelled(k)
    /\ \A j \in 1..Len(lines) : ~IsJumpOrLoop(lines[j].cmd)

\* The lines of ls with key k, in the order they have in ls
WithKey(ls, k) == SelectSeq(ls, LAMBDA e : e.num = k)

\* ls rearranged by ascending key, lines of equal key in their order in ls
RECURSIVE AscendingFrom(_, _)
AscendingFrom(ls, keys) ==
    IF keys = {} THEN <<>>
    ELSE LET k == CHOOSE m \in keys : \A n \in keys : m <= n
         IN  WithKey(ls, k) \o AscendingFrom(ls, keys \ {k})

\* C8: in a BASIC program whose non-comment lines all carry a label and
\* which has no jump or loop construct, the lines execute in ascending label
\* order whatever their order in the source, lines of equal label in source
\* order: the line list is the source's lines in that order, and the cursor
\* moves over it one position at a time (unless the run aborts).
C8_AscendingLabelOrder ==
    /\ [](LabelledStraightLine =>
             lines = AscendingFrom(ParsedLines(code, Len(code)),
                                   {ParseLine(code[k], k - 1).num : k \in 1..Len(code)}))
    /\ [][(Step /\ LabelledStraightLine) => (i' = i + 1 \/ pc' = "panic")]_vars

\* The out-of-order program with a repeated label has run to its end
C8_UnsortedRan ==
    /\ pc = "basic"
    /\ code = B_Unsorted
    /\ i = Len(lines)
    /\ out = <<Line("{}", << <<"A">> >>), Line("{}", << <<"B">> >>),
               Line("{}", << <<"D">> >>), Line("{}", << <<"C">> >>)>>

\* The transcript an unsupported dialect name yields
UnsupportedText ==
    <<Line("Language '" \o language \o "' not yet supported for execution", <<>>)>>

\* C9: dispatching with a dialect name other than the three supported ones
\* returns a transcript saying the dialect is unsupported and leaves the
\* Variable Store, the Turtle Pose, the Segment Log and the Suspension Record
\* as they were (as the resume operation left them, when it is the caller).
C9_UnsupportedDialect ==
    [][language \notin {"TW BASIC", "TW Pascal", "TW Prolog"}
          => /\ Run => /\ result' = UnsupportedText
                       /\ pc' = "idle"
                       /\ UNCHANGED <<variables, turtle_state, turtle_commands,
                                      waiting_for_input, input_prompt, current_input_var>>
             /\ \A v \in InputValues : (v # <<>> /\ waiting_for_input /\ Resume(v))
                   => /\ result' = UnsupportedText
                      /\ pc' = "idle"
                      /\ variables' = Put(variables, ResumeTarget, v)
                      /\ ~waiting_for_input'
                      /\ UNCHANGED <<turtle_state, turtle_commands>>]_vars

\* Run has dispatched on the dialect name Auto-Detect
C9_UnsupportedRan ==
    /\ last_op = "run"
    /\ language = "Auto-Detect"
    /\ pc = "idle"
    /\ result = UnsupportedText
    /\ output = <<Line("[Output for Auto-Detect]\n", <<>>)>> \o UnsupportedText

\* The words of the first line of the running BASIC program
ForWords == SplitWhitespace(lines[1].cmd)

\* A decimal integer literal with an optional minus sign
IsIntLiteral(s) ==
    /\ s # <<>>
    /\ IsDigitString(IF Head(s) = "-" THEN Tail(s) ELSE s)
IntLiteralVal(s) == IF Head(s) = "-" THEN -DigitsVal(Tail(s)) ELSE DigitsVal(s)

\* The running BASIC program starts with FOR v = a TO b and NEXT, a <= b
ForNextProgram ==
    /\ pc = "basic"
    /\ Len(lines) >= 2
    /\ Len(ForWords) = 6
    /\ ForWords[1] = <<"F","O","R">>
    /\ ForWords[3] = <<"=">>
    /\ ForWords[5] = <<"T","O">>
    /\ IsIntLiteral(ForWords[4])
    /\ IsIntLiteral(ForWords[6])
    /\ IntLiteralVal(ForWords[4]) <= IntLiteralVal(ForWords[6])
    /\ lines[2].cmd = <<"N","E","X","T">>

\* What FOR v = a TO b and NEXT emit: the FOR line, NEXT v = a+1 .. b, END FOR
ForTranscript(v, a, b) ==
    <<Line("FOR {} = {} TO {}", <<v, IntToStr(a), IntToStr(b)>>)>>
    \o [k \in 1..(b - a) |-> Line("NEXT {} = {}", <<v, IntToStr(a + k)>>)]
    \o <<Line("END FOR {}", <<v>>)>>

\* The loop of v from a to b, seen at the cursor: before FOR, inside the
\* loop (on the NEXT line), and after it
ForNextRuns(v, a, b) ==
    /\ i = 0 => out = <<>>
    /\ i = 1 => /\ Len(out) >= 1
                /\ Len(out) < Len(ForTranscript(v, a, b))
                /\ out = SubSeq(ForTranscript(v, a, b), 1, Len(out))
                /\ Len(out) = 1 => variables[v] = IntToStr(a)
                /\ Len(for_stack) = 1
    /\ i >= 2 => /\ Len(out) >= Len(ForTranscript(v, a, b))
                 /\ SubSeq(out, 1, Len(ForTranscript(v, a, b))) = ForTranscript(v, a, b)
                 /\ for_stack = <<>>
    /\ i = 2 => variables[v] = IntToStr(b)

\* C10: for integers a <= b, FOR v = a TO b followed by NEXT first stores a
\* in v, then emits exactly NEXT v = a+1, .., NEXT v = b in that order, then
\* END FOR v, and pops the loop frame; v ends as b and the loop-frame stack
\* at its prior depth.
C10_ForNext ==
    ForNextProgram =>
        ForNextRuns(ForWords[2], IntLiteralVal(ForWords[4]), IntLiteralVal(ForWords[6]))

\* The text after keyword kw and a space, on the BASIC line under the cursor
AfterKeyword(kw) == Trim(From(lines[i + 1].cmd, Len(kw) + 1))

\* The line under the cursor is one of the keywords kws, a space and an
\* integer distance
IsMove(kws) ==
    /\ AtBasicLine
    /\ \E kw \in kws : /\ StartsWith(AtCmd, kw \o <<" ">>)
                       /\ IsIntLiteral(AfterKeyword(kw))

\* That distance
MoveDistance(kws) ==
    IntLiteralVal(AfterKeyword(CHOOSE kw \in kws : StartsWith(AtCmd, kw \o <<" ">>)))

\* The turtle has moved by d along heading 0: the pose is (x + d, y), and
\* with the pen down exactly the segment (x, y, x + d, y) was appended
MovedAlongX(d) ==
    /\ turtle_state' = [turtle_state EXCEPT !.x = @ + d]
    /\ turtle_commands' =
          IF turtle_state.pen_down
          THEN Append(turtle_commands,
                      Line("line {} {} {} {}",
                           <<IntToStr(turtle_state.x), IntToStr(turtle_state.y),
                             IntToStr(turtle_state.x + d), IntToStr(turtle_state.y)>>))
          ELSE turtle_commands

\* C11: BACKWARD d (or BK d) from BASIC moves the turtle by -d along the
\* heading and, pen down, appends exactly one segment from the old to the new
\* position; at heading 0 from (x, y) the pose becomes (x - d, y).
C11_BackwardMoves ==
    [][(Step /\ IsMove({<<"B","A","C","K","W","A","R","D">>, <<"B","K">>})
             /\ turtle_state.angle = 0)
          => MovedAlongX(-MoveDistance({<<"B","A","C","K","W","A","R","D">>, <<"B","K">>}))]_vars

\* C12: FORWARD d at heading 0 from (x, y) moves the turtle to (x + d, y);
\* pen down it appends exactly the segment (x, y, x + d, y) to the Segment
\* Log, pen up it appends none.
C12_ForwardMoves ==
    [][(Step /\ IsMove({<<"F","O","R","W","A","R","D">>, <<"F","D">>})
             /\ turtle_state.angle = 0)
          => MovedAlongX(MoveDistance({<<"F","O","R","W","A","R","D">>, <<"F","D">>}))]_vars

\* FORWARD 50 has run pen down from the home pose
C12_ForwardRan ==
    /\ pc = "basic"
    /\ code = B_Pilot
    /\ i = Len(lines)
    /\ turtle_state = [HomePose EXCEPT !.x = 250]
    /\ turtle_commands =
          <<Line("line {} {} {} {}",
                 << <<"2","0","0">>, <<"2","0","0">>, <<"2","5","0">>, <<"2","0","0">> >>)>>

\* C13: from any turtle state, HOME sets the position to the canvas centre
\* and the heading to 0 and leaves the Segment Log unchanged; CLEARSCREEN
\* does the same reset and leaves the Segment Log empty.
C13_HomeAndClearScreen ==
    [][(Step /\ AtBasicLine)
          => /\ AtCmd = <<"H","O","M","E">>
                  => /\ turtle_state' = [turtle_state EXCEPT !.x = 200, !.y = 200, !.angle = 0]
                     /\ turtle_commands' = turtle_commands
             /\ AtCmd \in {<<"C","L","E","A","R","S","C","R","E","E","N">>, <<"C","S">>}
                  => /\ turtle_state' = [turtle_state EXCEPT !.x = 200, !.y = 200, !.angle = 0]
                     /\ turtle_commands' = <<>>]_vars

\* HOME has run from a pose off the centre with heading 90 and one segment
\* in the log
C13_HomeRan ==
    /\ pc = "basic"
    /\ code = B_Turtle
    /\ i = 6
    /\ turtle_state.x = 200
    /\ turtle_state.y = 200
    /\ turtle_state.angle = 0
    /\ Len(turtle_commands) = 1
    /\ out[Len(out)] = Line("Turtle home", <<>>)

\* The Prolog line at position k of the source, trimmed
PrologLine(k) == Trim(lines[k])

\* A line of the form p(args).
IsClauseForm(l) ==
    EndsWith(l, <<".">>) /\ Contains(l, <<"(">>) /\ ~Contains(l, <<":","-">>)

\* The Prolog line under the cursor has the form p(args). and repeats exactly
\* one earlier line: a fact followed by a query written in the same form
QueryAfterFact ==
    /\ pc = "prolog"
    /\ i < Len(lines)
    /\ IsClauseForm(PrologLine(i + 1))
    /\ Cardinality({j \in 1..i : PrologLine(j) = PrologLine(i + 1)}) = 1

\* The Prolog line under the cursor is a query name. for a name that is not
\* registered
QueryUnregistered ==
    /\ pc = "prolog"
    /\ i < Len(lines)
    /\ EndsWith(PrologLine(i + 1), <<".">>)
    /\ ~Contains(PrologLine(i + 1), <<"(">>)
    /\ ~Contains(PrologLine(i + 1), <<":","-">>)
    /\ ~Has(predicates, Trim(TrimEndMatches(PrologLine(i + 1), ".")))

\* C14: in a Prolog run a fact p(args). followed by a query written in the
\* same form p(args). makes the query report exactly one matching clause, and
\* a query naming a predicate never registered reports "Unknown predicate".
C14_QueryReportsClauses ==
    /\ [][(Step /\ QueryAfterFact)
             => \E k \in (Len(out) + 1)..Len(out') :
                   /\ out'[k].fmt = "  Found {} clause(s) for {}"
                   /\ out'[k].args[1] = <<"1">>]_vars
    /\ [][(Step /\ QueryUnregistered)
             => \E k \in (Len(out) + 1)..Len(out') :
                   out'[k].fmt = "  Unknown predicate: {}"]_vars

\* A quoted literal: one pair of double quotes around text without quotes
IsQuotedLiteral(a) ==
    /\ Len(a) >= 2
    /\ a[1] = "\""
    /\ a[Len(a)] = "\""
    /\ \A k \in 2..(Len(a) - 1) : a[k] # "\""

\* A variable name: non-empty text without quotes or spaces
IsName(a) == a # <<>> /\ \A k \in 1..Len(a) : a[k] \notin {"\"", " "}

\* The operand of the PRINT line under the cursor
PrintArg == AfterKeyword(<<"P","R","I","N","T">>)

\* The text of the LET line under the cursor after LET
LetArgs == From(lines[i + 1].cmd, 4)

\* The line under the cursor is LET name = value
IsLet ==
    /\ AtBasicLine
    /\ StartsWith(AtCmd, <<"L","E","T"," ">>)
    /\ FindChar(LetArgs, "=") # None
    /\ IsName(Trim(Slice(LetArgs, 0, FindChar(LetArgs, "="))))

\* C15: PRINT with a quoted literal emits exactly the literal's contents;
\* PRINT name emits the value stored for name, which after LET name = value
\* is exactly the trimmed text value; PRINT of a name with no stored value
\* emits "Undefined variable: <name>".
C15_PrintAndLet ==
    /\ [][(Step /\ AtBasicLine /\ StartsWith(AtCmd, <<"P","R","I","N","T"," ">>))
             => /\ IsQuotedLiteral(PrintArg)
                    => out' = Append(out, Line("{}", <<SubSeq(PrintArg, 2, Len(PrintArg) - 1)>>))
                /\ (IsName(PrintArg) /\ PrintArg \in DOMAIN variables)
                    => out' = Append(out, Line("{}", <<variables[PrintArg]>>))
                /\ (IsName(PrintArg) /\ PrintArg \notin DOMAIN variables)
                    => out' = Append(out, Line("Undefined variable: {}", <<PrintArg>>))]_vars
    /\ [][(Step /\ IsLet)
             => /\ Trim(Slice(LetArgs, 0, FindChar(LetArgs, "="))) \in DOMAIN variables'
                /\ variables'[Trim(Slice(LetArgs, 0, FindChar(LetArgs, "=")))]
                      = Trim(From(LetArgs, FindChar(LetArgs, "=") + 1))]_vars

\* PRINT "A", LET X = 5 and PRINT X have run
C15_HelloRan ==
    /\ pc = "basic"
    /\ code = B_Hello
    /\ i = 3
    /\ out = <<Line("{}", << <<"A">> >>),
               Line("{} = {}", << <<"X">>, <<"5">> >>),
               Line("{}", << <<"5">> >>)>>

\* The names bound or rebound by a step
Rebound ==
    {n \in DOMAIN variables' : n \notin DOMAIN variables \/ variables'[n] # variables[n]}

\* The text of the line under the cursor, in any dialect
AtLineText == IF pc = "basic" THEN lines[i + 1].cmd ELSE lines[i + 1]

\* C16: the Variable Store persists across runs and resume cycles: no entry
\* is ever removed, starting a run changes nothing, and a name changes value
\* only when an executed line that names it (an assignment, or NEXT for its
\* loop variable) or a resume targeting it rebinds it.
C16_StorePersists ==
    [][/\ DOMAIN variables \subseteq DOMAIN variables'
       /\ Run => variables' = variables
       /\ Rebound # {} => (Step \/ \E v \in InputValues : v # <<>> /\ Resume(v))
       /\ (\E v \in InputValues : v # <<>> /\ Resume(v)) => Rebound \subseteq {ResumeTarget}
       /\ Step => \A n \in Rebound :
                     \/ Contains(AtLineText, n)
                     \/ /\ pc = "basic"
                        /\ AtCmd = <<"N","E","X","T">>
                        /\ for_stack # <<>>
                        /\ for_stack[Len(for_stack)].var = n]_vars

\* A second run has started with the bindings of the first still in the store
C16_SecondRun ==
    /\ last_op = "run"
    /\ caller = "run"
    /\ ops = 2
    /\ pc = "basic"
    /\ steps = 0
    /\ code = B_Hello
    /\ <<"X">> \in DOMAIN variables
    /\ variables[<<"X">>] = <<"5">>

\* C17: when a run suspends on an input construct, the transcript accumulated
\* so far is still delivered as the result shown to the caller, and its last
\* line is the prompt.
C17_SuspendedTranscriptShown ==
    [][(Finish /\ raised)
          => /\ output' = <<Line("[Output for " \o language \o "]\n", <<>>)>> \o out
             /\ out # <<>>
             /\ out[Len(out)] = Line(input_prompt.fmt \o " ", input_prompt.args)]_vars

\* C18: RETURN with an empty call stack is a no-op: the call stack, the
\* loop-frame stack, the Variable Store and the transcript stay as they are
\* and execution proceeds to the next line.
C18_ReturnOnEmptyStack ==
    [][(Step /\ AtBasicLine /\ AtCmd = <<"R","E","T","U","R","N">> /\ gosub_stack = <<>>)
          => /\ i' = i + 1
             /\ pc' = pc
             /\ UNCHANGED <<gosub_stack, for_stack, variables, out>>]_vars

\* RETURN has run with an empty call stack, between PRINT "A" and PRINT "Z"
C18_ReturnPassed ==
    /\ pc = "basic"
    /\ code = B_Return
    /\ i = 3
    /\ gosub_stack = <<>>
    /\ out = <<Line("{}", << <<"A">> >>), Line("{}", << <<"Z">> >>)>>

\* The cursor is on NEXT and the innermost loop's value, advanced by its
\* step, does not exceed the limit
NextGoesOn ==
    /\ AtBasicLine
    /\ AtCmd = <<"N","E","X","T">>
    /\ for_stack # <<>>
    /\ for_stack[Len(for_stack)].current + for_stack[Len(for_stack)].step
          <= for_stack[Len(for_stack)].end

\* C19 as stated: when NEXT signals continue, the next line executed is the
\* line immediately following NEXT.
C19_NextContinuesAfterNext ==
    [][(Step /\ NextGoesOn) => i' = i + 1]_vars

\* C19, amended: when NEXT signals continue, the cursor stays where it is:
\* the next line executed is the NEXT line itself, neither the line following
\* NEXT nor the line following the matching FOR.
C19_NextStaysOnNext ==
    [][(Step /\ NextGoesOn)
          => /\ i' = i
             /\ lines[i' + 1].cmd = lines[i + 1].cmd
             /\ Len(out') = Len(out) + 1
             /\ out'[Len(out')].fmt = "NEXT {} = {}"]_vars

\* NEXT has signalled continue once in FOR I = 1 TO 3 and is under the
\* cursor again
C19_NextRepeated ==
    /\ pc = "basic"
    /\ code = B_For13
    /\ i = 1
    /\ steps = 2
    /\ out[Len(out)] = Line("NEXT {} = {}", << <<"I">>, <<"2">> >>)

\* The WHILE that balances a WEND, scanning back from position k with depth
\* open WENDs, or None when the scan passes the first line
RECURSIVE WhileMatch(_, _, _)
WhileMatch(ls, k, depth) ==
    IF k < 0 THEN None
    ELSE IF ToUpper(ls[k + 1].cmd) = <<"W","E","N","D">> THEN WhileMatch(ls, k - 1, depth + 1)
    ELSE IF StartsWith(ToUpper(ls[k + 1].cmd), <<"W","H","I","L","E"," ">>)
    THEN IF depth = 1 THEN k ELSE WhileMatch(ls, k - 1, depth - 1)
    ELSE WhileMatch(ls, k - 1, depth)

\* The condition of the WHILE at position m holds
WhileHolds(m) == EvaluateCondition(variables, From(lines[m + 1].cmd, 6))

\* C20: when WEND executes, the cursor moves to its matching WHILE if it has
\* one under WHILE/WEND nesting and that WHILE's condition holds; in every
\* other case execution falls through to the line after WEND.
C20_WendGoesToItsWhile ==
    [][(Step /\ AtBasicLine /\ AtCmd = <<"W","E","N","D">>)
          => IF WhileMatch(lines, i - 1, 1) # None /\ WhileHolds(WhileMatch(lines, i - 1, 1))
             THEN i' = WhileMatch(lines, i - 1, 1)
             ELSE i' = i + 1]_vars


\* The WEND that balances a WHILE, scanning forward from position k with
\* depth open WHILEs, or None when the scan passes the last line
RECURSIVE WendMatch(_, _, _)
WendMatch(ls, k, depth) ==
    IF k >= Len(ls) THEN None
    ELSE IF StartsWith(ToUpper(ls[k + 1].cmd), <<"W","H","I","L","E"," ">>)
    THEN WendMatch(ls, k + 1, depth + 1)
    ELSE IF ToUpper(ls[k + 1].cmd) = <<"W","E","N","D">>
    THEN IF depth = 1 THEN k ELSE WendMatch(ls, k + 1, depth - 1)
    ELSE WendMatch(ls, k + 1, depth)

\* C21: a WHILE whose condition is false moves the cursor to the line just
\* after its matching WEND, counting nested WHILE/WEND pairs, and nothing in
\* between is executed: transcript, Variable Store, pose and stacks stay as
\* they are.
C21_WhileFalseSkips ==
    [][(/\ Step
        /\ AtBasicLine
        /\ StartsWith(AtCmd, <<"W","H","I","L","E"," ">>)
        /\ ~WhileHolds(i)
        /\ WendMatch(lines, i + 1, 1) # None)
          => /\ i' = WendMatch(lines, i + 1, 1) + 1
             /\ UNCHANGED <<out, variables, turtle_state, turtle_commands,
                            for_stack, gosub_stack, waiting_for_input>>]_vars

\* The outer WHILE of B_While was false and the cursor is on the PRINT after
\* the outer WEND, with nothing of the loop bodies in the transcript
C21_Skipped ==
    /\ pc = "basic"
    /\ code = B_While
    /\ i = 6
    /\ steps = 2
    /\ out = <<Line("{} = {}", << <<"X">>, <<"0">> >>)>>


\* The positions of c where the separator "= " starts
SepAt(c) == {k \in 1..(Len(c) - 1) : c[k] = "=" /\ c[k + 1] = " "}

\* What the spec gives for condition c: a comparison of texts when c is
\* name = text with name bound, true for every other shape
HoldsAsText(c) ==
    IF Cardinality(SepAt(c)) = 1
    THEN LET k    == CHOOSE j \in SepAt(c) : TRUE
             name == Trim(SubSeq(c, 1, k - 1))
             text == Trim(SubSeq(c, k + 2, Len(c)))
         IN  name \in DOMAIN variables => variables[name] = text
    ELSE TRUE

\* The cursor is on IF <condition> THEN PRINT ...
AtIfPrint ==
    /\ AtBasicLine
    /\ StartsWith(AtCmd, <<"I","F"," ">>)
    /\ FindStr(AtCmd, <<" ","T","H","E","N"," ">>) # None
    /\ StartsWith(From(AtCmd, FindStr(AtCmd, <<" ","T","H","E","N"," ">>) + 6),
                  <<"P","R","I","N","T"," ">>)

\* The condition of the IF under the cursor
IfCondition == Slice(lines[i + 1].cmd, 3, FindStr(AtCmd, <<" ","T","H","E","N"," ">>))

\* C22: a condition name = text with name bound is true iff the stored value
\* equals text as a string; a condition of any other shape (no "= ", more than
\* one "= ", name unbound) is true; evaluating never changes the Variable
\* Store.  Seen through IF .. THEN PRINT (a line is printed iff the condition
\* is true) and through WHILE (the loop is entered iff it is true).
C22_ConditionAsText ==
    [][/\ (Step /\ AtIfPrint)
            => /\ (Len(out') = Len(out) + 1) <=> HoldsAsText(IfCondition)
               /\ (out' = out) <=> ~HoldsAsText(IfCondition)
               /\ variables' = variables
       /\ (Step /\ AtBasicLine /\ StartsWith(AtCmd, <<"W","H","I","L","E"," ">>)
                /\ WendMatch(lines, i + 1, 1) # None)
            => /\ (i' = i + 1) <=> HoldsAsText(From(lines[i + 1].cmd, 6))
               /\ variables' = variables]_vars

\* B_Cond has run to its end: the conditions on the bound X printed only for
\* the equal text, and the three conditions of other shapes all printed
C22_CondRan ==
    /\ pc = "basic"
    /\ code = B_Cond
    /\ i = 7
    /\ out = <<Line("{} = {}", << <<"X">>, <<"5">> >>),
               Line("{}", << <<"E","Q">> >>),
               Line("{}", << <<"U","N","B","O","U","N","D">> >>),
               Line("{}", << <<"N","O","S","E","P">> >>),
               Line("{}", << <<"T","W","O">> >>)>>


\* C23: after an A: line executes, a Suspension Record is pending, with a
\* prompt for the answer, as after INPUT.
C23_AcceptSuspends ==
    [][(Step /\ AtBasicLine /\ StartsWith(Trim(lines[i + 1].cmd), <<"A",":">>))
          => /\ waiting_for_input'
             /\ input_prompt' # NoPrompt
             /\ raised']_vars


\* The cursor is on REPEAT <n> <command>
AtRepeat ==
    /\ AtBasicLine
    /\ StartsWith(AtCmd, <<"R","E","P","E","A","T"," ">>)
    /\ Len(SplitWhitespace(lines[i + 1].cmd)) >= 3
    /\ ParseU32(SplitWhitespace(lines[i + 1].cmd)[2]) # None

\* The n of the REPEAT under the cursor
RepeatTimes == ParseU32(SplitWhitespace(lines[i + 1].cmd)[2])

\* The command of the REPEAT under the cursor: the text after the count
RepeatBody ==
    Trim(From(lines[i + 1].cmd, 7 + FindChar(From(lines[i + 1].cmd, 7), " ") + 1))

\* The state after n consecutive lines holding command c
RECURSIVE ConsecutiveLines(_, _, _)
ConsecutiveLines(st, n, c) ==
    IF n = 0 THEN st
    ELSE ConsecutiveLines(BasicStep([st EXCEPT !.i = 0], <<[num |-> 0, cmd |-> c]>>, EmptyMap),
                          n - 1, c)

\* The step leaves the transcript, store, pose and segments of state r
SameEffectAs(r) ==
    /\ out' = r.out
    /\ variables' = r.variables
    /\ turtle_state' = r.turtle_state
    /\ turtle_commands' = r.turtle_commands

\* C24: REPEAT n command has the effect of n consecutive lines holding
\* command, for every command of the BASIC vocabulary: turtle commands as
\* well as PRINT and LET.
C24_RepeatIsNLines ==
    [][(Step /\ AtRepeat) => SameEffectAs(ConsecutiveLines(St, RepeatTimes, RepeatBody))]_vars


\* The transcript before the step is the beginning of the transcript after it
TranscriptKept == Len(out') >= Len(out) /\ SubSeq(out', 1, Len(out)) = out

\* C25 as stated: the result of a BASIC run is every transcript line emitted,
\* in execution order: no command, CLS included, drops or reorders a line
\* emitted earlier in the run.
C25_NothingDropped ==
    [][/\ (Step /\ pc = "basic") => TranscriptKept
       /\ (Finish /\ pc = "basic") => result' = out]_vars

\* C25, amended: CLS discards what was emitted before it and starts the
\* transcript anew with its own line; every other command only appends; the
\* result of the run is the transcript as it stands when the run ends.
C25_DroppedOnlyByCls ==
    [][/\ (Step /\ AtBasicLine /\ StartsWith(AtCmd, <<"C","L","S">>))
            => out' = <<Line("Screen cleared.", <<>>)>>
       /\ (Step /\ AtBasicLine /\ ~StartsWith(AtCmd, <<"C","L","S">>)) => TranscriptKept
       /\ (Finish /\ pc = "basic") => result' = out]_vars

\* B_Cls has run to its end: the line printed before CLS is gone
C25_ClsRan ==
    /\ pc = "basic"
    /\ code = B_Cls
    /\ i = 3
    /\ out = <<Line("Screen cleared.", <<>>), Line("{}", << <<"B">> >>)>>


\* The arguments of the INPUT line under the cursor
InputArgs == From(lines[i + 1].cmd, 6)

\* The text of InputArgs after its closing quote, or all of it without quotes
AfterPrompt ==
    IF Quoted(InputArgs).ok
    THEN Trim(From(InputArgs, FindChar(InputArgs, "\"") + Len(Quoted(InputArgs).text) + 2))
    ELSE Trim(InputArgs)

\* The cursor is on INPUT [<quoted prompt>] <name>
AtInputWithName ==
    /\ AtBasicLine
    /\ StartsWith(AtCmd, <<"I","N","P","U","T"," ">>)
    /\ AfterPrompt # <<>>
    /\ ~Contains(AfterPrompt, <<" ">>)
    /\ ~Contains(AfterPrompt, <<"\"">>)

\* C26: INPUT with an optional quoted prompt of one or more words followed by
\* a variable name v leaves a Suspension Record whose prompt is the quoted
\* text (the default prompt without one) and whose target variable is v.
C26_InputRecord ==
    [][(Step /\ AtInputWithName)
          => /\ waiting_for_input'
             /\ input_prompt' = IF Quoted(InputArgs).ok
                                THEN Line("{}", <<Quoted(InputArgs).text>>)
                                ELSE Line("Input:", <<>>)
             /\ current_input_var' = AfterPrompt]_vars


\* The Prolog line under the cursor is a fact p(args). or a rule
\* p(args) :- body.
AtFactOrRule ==
    /\ pc = "prolog"
    /\ i < Len(lines)
    /\ \A kw \in {<<"d","o","m","a","i","n","s">>, <<"p","r","e","d","i","c","a","t","e","s">>,
                  <<"g","o","a","l">>, <<"c","l","a","u","s","e","s">>, <<"%">>, <<"/","*">>} :
          ~StartsWith(ToLower(PrologLine(i + 1)), kw)
    /\ \/ IsClauseForm(PrologLine(i + 1))
       \/ /\ Len(Split(PrologLine(i + 1), <<":","-">>)) = 2
          /\ Contains(Split(PrologLine(i + 1), <<":","-">>)[1], <<"(">>)

\* The predicate name of the clause under the cursor
ClauseName == Trim(Slice(PrologLine(i + 1), 0, FindChar(PrologLine(i + 1), "(")))

\* C27: in a Prolog run every fact line and every rule line stores its clause
\* text as the last element of the clause list of its predicate name, whether
\* or not that predicate was declared earlier.
C27_ClauseStored ==
    [][(Step /\ AtFactOrRule)
          => /\ ClauseName \in DOMAIN predicates'
             /\ predicates'[ClauseName] # <<>>
             /\ LET last == predicates'[ClauseName][Len(predicates'[ClauseName])]
                IN  IF IsClauseForm(PrologLine(i + 1))
                    THEN last = Line("{}", <<TrimEndMatches(PrologLine(i + 1), ".")>>)
                    ELSE last.fmt = "{} :- {}"]_vars


\* The Pascal line under the cursor
PascalLine == Trim(lines[i + 1])

\* The words a Pascal line may start with that select another statement
PascalLeading ==
    {<<"w","r","i","t","e">>, <<"r","e","a","d","l","n","(">>, <<"i","f"," ">>, <<"f","o","r"," ">>,
     <<"w","h","i","l","e"," ">>, <<"r","e","p","e","a","t">>, <<"u","n","t","i","l">>,
     <<"c","a","s","e"," ">>, <<"p","r","o","c","e","d","u","r","e"," ">>,
     <<"f","u","n","c","t","i","o","n"," ">>, <<"v","a","r"," ">>, <<"c","o","n","s","t"," ">>,
     <<"t","y","p","e"," ">>, <<"p","r","o","g","r","a","m"," ">>, <<"b","e","g","i","n">>,
     <<"e","n","d">>, <<"(","*">>, <<"{">>}

\* The cursor is on a Pascal assignment line name := expr;
AtAssignment ==
    /\ pc = "pascal"
    /\ i < Len(lines)
    /\ Len(Split(PascalLine, <<":","=">>)) = 2
    /\ IsName(Trim(Split(PascalLine, <<":","=">>)[1]))
    /\ \A kw \in PascalLeading : ~StartsWith(ToLower(PascalLine), kw)

\* C28: every Pascal assignment line name := expr; stores expr, without its
\* trailing ';', under name in the Variable Store and reports it, whatever
\* expr contains, a built-in call such as sqrt( included.
C28_AssignmentStores ==
    [][(Step /\ AtAssignment)
          => LET name == Trim(Split(PascalLine, <<":","=">>)[1])
                 expr == TrimEndMatches(Trim(Split(PascalLine, <<":","=">>)[2]), ";")
             IN  /\ name \in DOMAIN variables'
                 /\ variables'[name] = expr
                 /\ out' = Append(out, Line("{} := {}", <<name, expr>>))]_vars


\* C29: in a Prolog run a line that mentions readln(, such as readln(X) or
\* readln(X)., raises a suspension whose target variable is the sentinel
\* READLN, and the Suspension Record is still pending when the run has ended.
C29_PrologReadlnSuspends ==
    [][/\ (Step /\ pc = "prolog" /\ i < Len(lines)
                /\ Contains(ToLower(PrologLine(i + 1)), <<"r","e","a","d","l","n","(">>))
            => /\ waiting_for_input'
               /\ current_input_var' = <<"R","E","A","D","L","N">>
       /\ (Finish /\ pc = "prolog"
                  /\ \E k \in 1..Len(lines) :
                        Contains(ToLower(PrologLine(k)), <<"r","e","a","d","l","n","(">>))
            => waiting_for_input']_vars


\* The store after the step is the store before it with the one binding
\* name |-> v added or replaced
OneBindingAdded(name, v) ==
    /\ DOMAIN variables' = DOMAIN variables \cup {name}
    /\ variables'[name] = v
    /\ \A k \in DOMAIN variables \ {name} : variables'[k] = variables[k]

\* The cursor of a resumed run is on an input construct: BASIC INPUT with
\* arguments, or Pascal readln(..)
AtInputAgain ==
    /\ caller = "resume"
    /\ i < Len(lines)
    /\ \/ pc = "basic" /\ StartsWith(AtCmd, <<"I","N","P","U","T"," ">>)
       \/ /\ pc = "pascal"
          /\ StartsWith(ToLower(PascalLine), <<"r","e","a","d","l","n","(">>)
          /\ Len(PascalLine) >= 8

\* C30: a resume adds exactly one binding to the Variable Store; when the
\* resumed run reaches an input construct again, a fresh Suspension Record is
\* set for that construct and its prompt is emitted; and when that run ends
\* the state is Suspended again with the record still pending.
C30_CycleRepeats ==
    [][/\ \A v \in InputValues :
             (v # <<>> /\ Resume(v)) => OneBindingAdded(ResumeTarget, v)
       /\ (Step /\ AtInputAgain)
            => /\ waiting_for_input'
               /\ input_prompt' # NoPrompt
               /\ out' = Append(out, Line(input_prompt'.fmt \o " ", input_prompt'.args))
               /\ variables' = variables
       /\ (Finish /\ caller = "resume" /\ raised)
            => /\ pc' = "idle"
               /\ waiting_for_input'
               /\ input_prompt' = input_prompt
               /\ input_prompt' # NoPrompt
               /\ current_input_var' = current_input_var
               /\ variables' = variables]_vars

\* The run resumed with Ada on B_Input has reached INPUT again and ended:
\* N is bound and a record for N is pending once more
C30_SuspendedAgain ==
    /\ pc = "idle"
    /\ code = B_Input
    /\ language = "TW BASIC"
    /\ caller = "resume"
    /\ raised
    /\ waiting_for_input
    /\ current_input_var = <<"N">>
    /\ input_prompt = Line("{}", << <<"N","a","m","e">> >>)
    /\ DOMAIN variables = {<<"N">>}
    /\ variables[<<"N">>] = <<"A","d","a">>


\* The cursor is on a labelled line n GOTO n
AtSelfJump ==
    /\ AtBasicLine
    /\ StartsWith(AtCmd, <<"G","O","T","O"," ">>)
    /\ lines[i + 1].num \in DOMAIN line_numbers
    /\ ParseU32(Trim(From(lines[i + 1].cmd, 5))) = lines[i + 1].num

\* C31: a reached line n GOTO n keeps the run on that line forever, whatever
\* blank or comment lines the source holds around it: executing it leaves the
\* cursor where it is and the run never gets past it.
C31_SelfJumpStays ==
    [][(Step /\ AtSelfJump) => (i' = i /\ pc' = pc /\ UNCHANGED out)]_vars


\* C32: every Pascal run and every Prolog run visits each source line once,
\* in source order, and terminates: each step moves the cursor to the next
\* line and the run goes on, whatever construct the line holds.
C32_SinglePass ==
    [][(Step /\ pc \in {"pascal", "prolog"}) => (i' = i + 1 /\ pc' = pc)]_vars


\* The Segment Log before the step is the beginning of the log after it
LogKept ==
    /\ Len(turtle_commands') >= Len(turtle_commands)
    /\ SubSeq(turtle_commands', 1, Len(turtle_commands)) = turtle_commands

\* The step is a clear-screen: the BASIC command or the host's action
IsClearScreen ==
    \/ /\ Step
       /\ AtBasicLine
       /\ AtCmd \in {<<"C","L","E","A","R","S","C","R","E","E","N">>, <<"C","S">>}
    \/ pc = "idle" /\ last_op' = "clear_turtle" /\ ops' = ops + 1

\* C33: the Segment Log is append-only except for clear-screen: every step
\* keeps the previous log as the beginning of the new one, or is a clear-screen
\* (the CLEARSCREEN command or the host's clear action) that empties it;
\* starting a run or a resume's re-run never removes segments.
C33_LogAppendOnly ==
    [][/\ LogKept \/ (IsClearScreen /\ turtle_commands' = <<>>)
       /\ (Run \/ \E v \in InputValues : Resume(v)) => turtle_commands' = turtle_commands]_vars

\* B_Turtle has passed HOME and BK with the segment of FD 30 still logged
C33_SegmentKept ==
    /\ pc = "basic"
    /\ code = B_Turtle
    /\ i = 7
    /\ Len(turtle_commands) = 1
    /\ turtle_state.x = HomeX
    /\ turtle_state.angle = 0


\* The cursor is on a pen command: PENUP / PU, or PENDOWN / PD
AtPen(names) == AtBasicLine /\ AtCmd \in names

\* C34: PENUP and PENDOWN change only the pen flag: position, heading and
\* Segment Log stay as they are; the flag decides only whether a later move
\* appends a segment, and a move does not change the flag.
C34_PenOnlyFlag ==
    [][/\ (Step /\ AtPen({<<"P","E","N","U","P">>, <<"P","U">>}))
            => /\ turtle_state' = [turtle_state EXCEPT !.pen_down = FALSE]
               /\ turtle_commands' = turtle_commands
       /\ (Step /\ AtPen({<<"P","E","N","D","O","W","N">>, <<"P","D">>}))
            => /\ turtle_state' = [turtle_state EXCEPT !.pen_down = TRUE]
               /\ turtle_commands' = turtle_commands
       /\ (Step /\ IsMove({<<"F","O","R","W","A","R","D">>, <<"F","D">>}))
            => /\ turtle_state'.pen_down = turtle_state.pen_down
               /\ LogKept
               /\ Len(turtle_commands') =
                     Len(turtle_commands) + (IF turtle_state.pen_down THEN 1 ELSE 0)
               /\ <<turtle_state'.x, turtle_state'.y>> # <<turtle_state.x, turtle_state.y>>]_vars

\* B_Turtle has moved 20 with the pen up, without a segment, and has just put
\* the pen down again away from the home position
C34_PenDownAgain ==
    /\ pc = "basic"
    /\ code = B_Turtle
    /\ i = 3
    /\ turtle_state.pen_down
    /\ turtle_state.x = HomeX + 20
    /\ turtle_commands = <<>>
    /\ out[Len(out)] = Line("Pen down", <<>>)


\* The running BASIC program has no jump construct: no IF, GOTO, GOSUB,
\* RETURN, J:, WHILE or WEND
JumpFree ==
    /\ pc = "basic"
    /\ \A k \in 1..Len(lines) :
          /\ \A kw \in {<<"I","F"," ">>, <<"G","O","T","O"," ">>, <<"G","O","S","U","B"," ">>,
                        <<"W","H","I","L","E"," ">>, <<"J",":">>} :
                ~StartsWith(ToUpper(lines[k].cmd), kw)
          /\ ToUpper(lines[k].cmd) \notin {<<"R","E","T","U","R","N">>, <<"W","E","N","D">>}

\* C35: in a BASIC program with FOR .. NEXT and no jump construct the cursor
\* never moves back: every line other than NEXT is left for the next line, so
\* a line between FOR and NEXT executes once per run whatever the bounds are,
\* and the only line executed again is NEXT itself, each time emitting its
\* NEXT line for the loop variable.
C35_BodyRunsOnce ==
    [][(Step /\ JumpFree)
          => \/ i' = i + 1
             \/ pc' = "panic"
             \/ /\ AtCmd = <<"N","E","X","T">>
                /\ for_stack # <<>>
                /\ i' = i
                /\ out' = Append(out, Line("NEXT {} = {}",
                                           <<for_stack[Len(for_stack)].var,
                                             variables'[for_stack[Len(for_stack)].var]>>))]_vars

\* B_ForBody has run to its end: PRINT I ran once, with I = 1, and NEXT ran
\* three times
C35_BodyRan ==
    /\ pc = "basic"
    /\ code = B_ForBody
    /\ i = 3
    /\ out = <<Line("FOR {} = {} TO {}", << <<"I">>, <<"1">>, <<"3">> >>),
               Line("{}", << <<"1">> >>),
               Line("NEXT {} = {}", << <<"I">>, <<"2">> >>),
               Line("NEXT {} = {}", << <<"I">>, <<"3">> >>),
               Line("END FOR {}", << <<"I">> >>)>>


\* C36: the pending flag, once set, is cleared only by a resume with
\* non-empty input.  A Run issued while it is set starts the interpreter all
\* the same, and when that run ends the flag is still set and the visible
\* output is what it was, also when the run reached no input construct.
C36_PendingOutlivesRun ==
    [][/\ (waiting_for_input /\ ~waiting_for_input')
            => \E v \in InputValues : v # <<>> /\ Resume(v)
       /\ (Run /\ waiting_for_input)
            => /\ waiting_for_input'
               /\ language \in Supported => (pc' \in Running /\ i' = 0 /\ out' = <<>>)
               /\ output' = output
       /\ (Finish /\ caller = "run" /\ waiting_for_input)
            => (waiting_for_input' /\ output' = output)]_vars

\* B_Input suspended in BASIC, the dialect was changed to TW Prolog, and a
\* direct Run, which reached no input construct, has ended: the record for N
\* is still pending and the output still shows the language message
C36_RunLeftPending ==
    /\ pc = "idle"
    /\ code = B_Input
    /\ language = "TW Prolog"
    /\ caller = "run"
    /\ last_op = "run"
    /\ ~raised
    /\ result # <<>>
    /\ waiting_for_input
    /\ current_input_var = <<"N">>
    /\ output = <<Line("Language set to TW Prolog", <<>>)>>


\* The positions of the INPUT lines of line list ls
InputLines(ls) ==
    {k \in 1..Len(ls) : StartsWith(ToUpper(ls[k].cmd), <<"I","N","P","U","T"," ">>)}

\* The variable named on INPUT line k of ls: its last word
InputName(ls, k) == SplitWhitespace(ls[k].cmd)[Len(SplitWhitespace(ls[k].cmd))]

\* The last INPUT line of ls
LastInput(ls) == CHOOSE k \in InputLines(ls) : \A m \in InputLines(ls) : m <= k

\* The names of the INPUT lines of ls before the last one, other than the
\* name of the last one and than the names the program binds by LET
EarlierInputNames(ls) ==
    {InputName(ls, k) : k \in InputLines(ls) \ {LastInput(ls)}}
       \ ({InputName(ls, LastInput(ls))}
          \cup {SplitWhitespace(ls[k].cmd)[2] :
                  k \in {m \in 1..Len(ls) : StartsWith(ToUpper(ls[m].cmd), <<"L","E","T"," ">>)}})

\* C37: when one jump-free BASIC run executes several INPUT lines, the
\* Suspension Record after the run holds the prompt and the target of the last
\* INPUT executed, and the target of an earlier INPUT with another name is
\* never bound, however many resume cycles follow.
C37_LastInputWins ==
    /\ [][(Finish /\ JumpFree /\ Cardinality(InputLines(lines)) >= 2)
             => /\ waiting_for_input'
                /\ current_input_var' = InputName(lines, LastInput(lines))
                /\ input_prompt' = IF Quoted(lines[LastInput(lines)].cmd).ok
                                   THEN Line("{}", <<Quoted(lines[LastInput(lines)].cmd).text>>)
                                   ELSE Line("Input:", <<>>)]_vars
    /\ [](Cardinality(InputLines(ProgramLines(code))) >= 2
             => \A name \in EarlierInputNames(ProgramLines(code)) :
                   name \notin DOMAIN variables)

\* B_Input2 was resumed with Ada and has suspended again: B, the target of
\* the last INPUT, is bound, and A, the target of the first, is not
C37_OnlyLastBound ==
    /\ pc = "idle"
    /\ code = B_Input2
    /\ caller = "resume"
    /\ waiting_for_input
    /\ current_input_var = <<"B">>
    /\ input_prompt = Line("{}", << <<"T","w","o"," ","w","o","r","d","s">> >>)
    /\ <<"B">> \in DOMAIN variables
    /\ variables[<<"B">>] = <<"A","d","a">>
    /\ <<"A">> \notin DOMAIN variables


\* The cursor is on GOSUB n with n a number that no line carries as label
AtGosubMissing ==
    /\ AtBasicLine
    /\ StartsWith(AtCmd, <<"G","O","S","U","B"," ">>)
    /\ IsDigitString(AfterKeyword(<<"G","O","S","U","B">>))
    /\ DigitsVal(AfterKeyword(<<"G","O","S","U","B">>)) \notin DOMAIN line_numbers

\* C38: GOSUB n pushes its call-site cursor also when no line carries label
\* n: execution falls through to the next line with the call stack one
\* deeper, and a later RETURN pops that entry.
C38_GosubAlwaysPushes ==
    [][/\ (Step /\ AtGosubMissing)
            => /\ gosub_stack' = Append(gosub_stack, i)
               /\ i' = i + 1
               /\ UNCHANGED <<out, variables, for_stack>>
       /\ (Step /\ AtBasicLine /\ AtCmd = <<"R","E","T","U","R","N">> /\ gosub_stack # <<>>)
            => /\ gosub_stack' = SubSeq(gosub_stack, 1, Len(gosub_stack) - 1)
               /\ i' = gosub_stack[Len(gosub_stack)]]_vars

\* In B_GosubMissing the GOSUB to the missing label 99 pushed its call site,
\* PRINT ran, and RETURN has popped the entry again
C38_PushedAndPopped ==
    /\ pc = "basic"
    /\ code = B_GosubMissing
    /\ steps = 3
    /\ i = 0
    /\ gosub_stack = <<>>
    /\ out = <<Line("{}", << <<"A">> >>)>>


\* The words that start a line acting on the turtle
TurtleWords ==
    {<<"F","O","R","W","A","R","D">>, <<"F","D">>, <<"B","A","C","K","W","A","R","D">>, <<"B","K">>,
     <<"R","I","G","H","T">>, <<"R","T">>, <<"L","E","F","T">>, <<"L","T">>,
     <<"P","E","N","U","P">>, <<"P","U">>, <<"P","E","N","D","O","W","N">>, <<"P","D">>,
     <<"H","O","M","E">>, <<"C","L","E","A","R","S","C","R","E","E","N">>, <<"C","S">>}

\* The lines of source text src that act on the turtle
TurtleLines(src) ==
    {k \in 1..Len(src) : /\ SplitWhitespace(src[k]) # <<>>
                         /\ ToUpper(SplitWhitespace(src[k])[1]) \in TurtleWords}

\* The source text has one turtle line, FORWARD d, and no REPEAT: its d
OneForward(src) ==
    /\ Cardinality(TurtleLines(src)) = 1
    /\ \A k \in TurtleLines(src) :
          /\ ToUpper(SplitWhitespace(src[k])[1]) = <<"F","O","R","W","A","R","D">>
          /\ Len(SplitWhitespace(src[k])) = 2
          /\ IsDigitString(SplitWhitespace(src[k])[2])
Stride(src) == DigitsVal(SplitWhitespace(src[CHOOSE k \in TurtleLines(src) : TRUE])[2])

\* Segment k of a chain of moves of length d along heading 0 from home
ChainSegment(k, d) ==
    Line("line {} {} {} {}",
         <<IntToStr(HomeX + d * (k - 1)), IntToStr(HomeY),
           IntToStr(HomeX + d * k), IntToStr(HomeY)>>)

\* C39: Turtle Pose and Segment Log carry over between runs: starting a run
\* or a resume's re-run leaves both as they are, so for a program whose one
\* turtle line is FORWARD d, pen down, the log after k runs is the chain of
\* k segments of length d, each starting where the previous one ended, and
\* the turtle stands at the end of the last.
C39_TurtleCarriesOver ==
    /\ [][(Run \/ \E v \in InputValues : Resume(v))
             => UNCHANGED <<turtle_state, turtle_commands>>]_vars
    /\ [](OneForward(code)
             => /\ turtle_state.x = HomeX + Stride(code) * Len(turtle_commands)
                /\ turtle_state.y = HomeY
                /\ \A k \in 1..Len(turtle_commands) :
                      turtle_commands[k] = ChainSegment(k, Stride(code)))

\* B_Pilot has been run twice in a row: two segments, the second from the
\* end of the first, and the turtle 100 from home
C39_TwoRuns ==
    /\ pc = "idle"
    /\ code = B_Pilot
    /\ last_op = "run"
    /\ ops = 2
    /\ turtle_commands = <<ChainSegment(1, 50), ChainSegment(2, 50)>>
    /\ turtle_state.x = HomeX + 100


\* The Prolog line under the cursor is a predicate declaration p(args)
AtDeclaration ==
    /\ pc = "prolog"
    /\ i < Len(lines)
    /\ \A kw \in {<<"d","o","m","a","i","n","s">>, <<"p","r","e","d","i","c","a","t","e","s">>,
                  <<"g","o","a","l">>, <<"c","l","a","u","s","e","s">>, <<"%">>, <<"/","*">>} :
          ~StartsWith(ToLower(PrologLine(i + 1)), kw)
    /\ Contains(PrologLine(i + 1), <<"(">>)
    /\ Contains(PrologLine(i + 1), <<")">>)
    /\ ~Contains(PrologLine(i + 1), <<":","-">>)
    /\ ~Contains(PrologLine(i + 1), <<".">>)

\* The Prolog line under the cursor is a query name. on a registered name
AtQueryRegistered ==
    /\ pc = "prolog"
    /\ i < Len(lines)
    /\ EndsWith(PrologLine(i + 1), <<".">>)
    /\ ~Contains(PrologLine(i + 1), <<"(">>)
    /\ ~Contains(PrologLine(i + 1), <<":","-">>)
    /\ TrimEndMatches(PrologLine(i + 1), ".") \in DOMAIN predicates

\* C40: a declaration line for a predicate, registered already or not, leaves
\* that predicate with an empty clause list and the other predicates as they
\* were, so a later query counts only the clauses stored after the last
\* declaration, and reports none when there are none.
C40_RedeclarationResets ==
    [][/\ (Step /\ AtDeclaration)
            => /\ DOMAIN predicates' = DOMAIN predicates \cup {ClauseName}
               /\ predicates'[ClauseName] = <<>>
               /\ \A k \in DOMAIN predicates \ {ClauseName} : predicates'[k] = predicates[k]
       /\ (Step /\ AtQueryRegistered)
            => LET name == TrimEndMatches(PrologLine(i + 1), ".")
               IN  IF predicates[name] = <<>>
                   THEN out'[Len(out')] = Line("  No clauses found for {}", <<name>>)
                   ELSE out'[Len(out) + 2] =
                           Line("  Found {} clause(s) for {}",
                                <<IntToStr(Len(predicates[name])), name>>)]_vars

\* L_Redeclare has run to its end: bird was declared again after its fact,
\* and the query found no clause
C40_FactForgotten ==
    /\ pc = "prolog"
    /\ code = L_Redeclare
    /\ i = 4
    /\ predicates[<<"b","i","r","d">>] = <<>>
    /\ out[2] = Line("Fact: {}", << <<"b","i","r","d","(","t","w","e","e","t","y",")">> >>)
    /\ out[Len(out)] = Line("  No clauses found for {}", << <<"b","i","r","d">> >>)

====
